---- MODULE Spec2Model ----
(***************************************************************************)
(* Verification model of the pet-tracker web application.                  *)
(*                                                                         *)
(* The application is a set of independent client-side components over an  *)
(* external document database and auth provider.  Each component is        *)
(* modelled as its own state machine over its own variables:               *)
(*   - the routing middleware                       (mw*  variables)       *)
(*   - the pet-scoped views and their subscriptions (v*   variables)       *)
(*   - the delete handlers                          (d*   variables)       *)
(*   - the dashboard page                           (dash* variables)      *)
(*   - the auth provider and its session cookie     (auth* variables)      *)
(*   - the medication status badge                  (b*   variables)       *)
(*   - the medication dialogs and their validation  (f*   variables)       *)
(* A component specification lets its own variables move and holds the     *)
(* others at their initial value.                                          *)
(***************************************************************************)
EXTENDS Integers, Sequences, FiniteSets, TLC

VARIABLES
  \* routing middleware
  mwReq, mwResp, mwHops,
  \* pet-scoped views
  vKind, vMounted, vUser, vPet, vEffectDue, vCleanup, vRuns, vSubs, vList,
  vLastSnap, vLoading, vToasts, vRedirect, vErrors, petOwner,
  \* delete handlers
  dKind, dUser, dOwner, dImage, dPc, dFetch, dLoading, dOpen, dToasts, dLog,
  \* dashboard page
  dashUser, dashNow, dashToday, dashPc, dashPets, dashApts, dashMeds,
  dashStats, dashFired, dashLoading, dashSnap,
  \* auth provider
  authCurrent, ctxUser, cookie, authQueue, authPending, signOutPc, authEvents,
  \* medication badge
  bNow, bMed, bBadge, bOverview,
  \* medication dialogs
  fKind, fUser, fForm, fErrors, fPc, fLoading, fOpen, fWrite, fSubmits,
  fWrites, fToast,
  \* appointment dialogs
  aKind, aUser, aForm, aErrors, aPc, aLoading, aOpen, aWrite, aSubmits, aWrites, aToast,
  \* weight statistics
  wWeights, wStats,
  \* edit dialogs
  eKind, eOwner, eStored, eProp, eMounted, eOpen, eForm, eClosedBy, ePc, eLoading,
  eImageUrl, ePreview, eWrites, eSavePressed, eToast,
  \* write handlers of the dialogs
  hKind, hUser, hLoading, hAlertOpen, hInFlight, hStarts, hLast, hToast,
  \* weight chart
  cNewestFirst, cData, cChart

mwVars   == <<mwReq, mwResp, mwHops>>
viewVars == <<vKind, vMounted, vUser, vPet, vEffectDue, vCleanup, vRuns, vSubs,
              vList, vLastSnap, vLoading, vToasts, vRedirect, vErrors, petOwner>>
delVars  == <<dKind, dUser, dOwner, dImage, dPc, dFetch, dLoading, dOpen, dToasts,
              dLog>>
dashVars == <<dashUser, dashNow, dashToday, dashPc, dashPets, dashApts,
              dashMeds, dashStats, dashFired, dashLoading, dashSnap>>
authVars == <<authCurrent, ctxUser, cookie, authQueue, authPending, signOutPc,
              authEvents>>
badgeVars == <<bNow, bMed, bBadge, bOverview>>
formVars == <<fKind, fUser, fForm, fErrors, fPc, fLoading, fOpen, fWrite,
              fSubmits, fWrites, fToast>>

apptVars == <<aKind, aUser, aForm, aErrors, aPc, aLoading, aOpen, aWrite, aSubmits, aWrites, aToast>>

weightVars == <<wWeights, wStats>>

editVars == <<eKind, eOwner, eStored, eProp, eMounted, eOpen, eForm, eClosedBy, ePc, eLoading,
  eImageUrl, ePreview, eWrites, eSavePressed, eToast>>

handlerVars == <<hKind, hUser, hLoading, hAlertOpen, hInFlight, hStarts, hLast, hToast>>

chartVars == <<cNewestFirst, cData, cChart>>

vars == <<mwVars, viewVars, delVars, dashVars, authVars, badgeVars, formVars,
          apptVars,
          weightVars,
          editVars,
          handlerVars,
          chartVars>>

\* What a step of one component leaves alone: the other components.
mwOthers    == <<viewVars, delVars, dashVars, authVars, badgeVars, formVars,
                apptVars,
                weightVars,
                editVars,
                handlerVars,
                chartVars>>
viewOthers  == <<mwVars, delVars, dashVars, authVars, badgeVars, formVars,
                apptVars,
                weightVars,
                editVars,
                handlerVars,
                chartVars>>
delOthers   == <<mwVars, viewVars, dashVars, authVars, badgeVars, formVars,
                apptVars,
                weightVars,
                editVars,
                handlerVars,
                chartVars>>
dashOthers  == <<mwVars, viewVars, delVars, authVars, badgeVars, formVars,
                apptVars,
                weightVars,
                editVars,
                handlerVars,
                chartVars>>
authOthers  == <<mwVars, viewVars, delVars, dashVars, badgeVars, formVars,
                apptVars,
                weightVars,
                editVars,
                handlerVars,
                chartVars>>
badgeOthers == <<mwVars, viewVars, delVars, dashVars, authVars, formVars,
                apptVars,
                weightVars,
                editVars,
                handlerVars,
                chartVars>>
formOthers  == <<mwVars, viewVars, delVars, dashVars, authVars, badgeVars,
                apptVars,
                weightVars,
                editVars,
                handlerVars,
                chartVars>>
apptOthers == <<mwVars, viewVars, delVars, dashVars, authVars, badgeVars, formVars,
                weightVars,
                editVars,
                handlerVars,
                chartVars>>
weightOthers == <<mwVars, viewVars, delVars, dashVars, authVars, badgeVars, formVars, apptVars,
                editVars,
                handlerVars,
                chartVars>>
editOthers == <<mwVars, viewVars, delVars, dashVars, authVars, badgeVars, formVars, apptVars, weightVars,
                handlerVars,
                chartVars>>
handlerOthers == <<mwVars, viewVars, delVars, dashVars, authVars, badgeVars, formVars, apptVars, weightVars, editVars,
                chartVars>>
chartOthers == <<mwVars, viewVars, delVars, dashVars, authVars, badgeVars, formVars, apptVars, weightVars, editVars, handlerVars>>

\* Values that stand for JavaScript's null / undefined and for "no document".
Null == "null"
NoDoc == "nodoc"

Users == {"u1", "u2"}
PetIds == {"p1", "p2"}

(***************************************************************************)
(* Routing middleware (src/middleware.ts)                                  *)
(***************************************************************************)

\* Longest request path, in tokens.
MaxPathLen == 4
\* Redirects a client follows for one request.
MaxHops == 2

\* A pathname is a sequence of tokens; a token stands for the characters it
\* spells, and no token is a prefix of another, so that String.startsWith is
\* the prefix order on token sequences.
Alphabet ==
  {"/", "dashboard", "settings", "pets", "signin", "signup", "reset-password",
   "mobile-not-supported", "why-desktop", "__/auth", "_next", "api", "static",
   ".", "favicon.ico", "x"}

\* The tokens that spell a '.' character.
DotTokens == {".", "favicon.ico"}

RECURSIVE SeqsUpTo(_, _)
SeqsUpTo(S, n) ==
  IF n = 0 THEN {<<>>}
  ELSE LET shorter == SeqsUpTo(S, n - 1)
       IN  shorter \cup {Append(s, x) : s \in {t \in shorter : Len(t) = n - 1}, x \in S}

\* Every pathname starts with '/'.
Pathnames == {<<"/">> \o s : s \in SeqsUpTo(Alphabet, MaxPathLen - 1)}

StartsWith(s, p) == Len(p) <= Len(s) /\ SubSeq(s, 1, Len(p)) = p

IncludesDot(s) == \E i \in 1..Len(s) : s[i] \in DotTokens

publicPaths ==
  {<<"/", "signin">>, <<"/", "signup">>, <<"/", "reset-password">>,
   <<"/", "mobile-not-supported">>,
   <<"/", "mobile-not-supported", "/", "why-desktop">>,
   <<"/">>,
   <<"/", "__/auth">>}

\* A list of auth paths that also names the page signed-in users are sent to.
authPathsWithDashboard ==
  {<<"/", "signin">>, <<"/", "signup">>, <<"/", "dashboard">>}

authPaths == {<<"/", "signin">>, <<"/", "signup">>}

protectedPaths == {<<"/", "dashboard">>, <<"/", "settings">>, <<"/", "pets">>}

UserAgents == {"desktop", "mobile"}
\* The __session cookie of a request: absent, present with an empty value, or
\* present with a token.
Cookies == {"absent", "empty", "tok"}

\* is-mobile's verdict on the user-agent header.
isMobile(ua) == ua = "mobile"

\* request.cookies.get('__session')?.value, as a truth value.
TokenTruthy(c) == c = "tok"

\* A response: NextResponse.next(), or a redirect to a pathname with the value
\* of its redirect query parameter (<<>> when the URL carries none).
PassThrough == [kind |-> "next", to |-> <<>>, redirect |-> <<>>]
RedirectTo(p, q) == [kind |-> "redirect", to |-> p, redirect |-> q]

isPublicPath(pathname) == \E p \in publicPaths : StartsWith(pathname, p)
isAuthPath(pathname) == \E p \in authPaths : StartsWith(pathname, p)
isProtectedPath(pathname) == \E p \in protectedPaths : StartsWith(pathname, p)

isStaticOrApi(pathname) ==
  \/ StartsWith(pathname, <<"/", "_next">>)
  \/ StartsWith(pathname, <<"/", "api">>)
  \/ StartsWith(pathname, <<"/", "static">>)
  \/ IncludesDot(pathname)

middleware(req) ==
  LET pathname == req.path IN
  IF StartsWith(pathname, <<"/", "__/auth">>) THEN PassThrough
  ELSE IF pathname = <<"/", "favicon.ico">> THEN PassThrough
  ELSE IF isStaticOrApi(pathname) THEN PassThrough
  ELSE IF isMobile(req.ua) THEN
    IF isPublicPath(pathname) THEN PassThrough
    ELSE RedirectTo(<<"/", "mobile-not-supported">>, <<>>)
  ELSE IF isPublicPath(pathname) /\ ~isAuthPath(pathname) THEN PassThrough
  ELSE IF TokenTruthy(req.cookie) /\ isAuthPath(pathname)
    THEN RedirectTo(<<"/", "dashboard">>, <<>>)
  ELSE IF isProtectedPath(pathname) /\ ~TokenTruthy(req.cookie)
    THEN RedirectTo(<<"/", "signin">>, pathname)
  ELSE PassThrough

\* mwReq and mwResp hold <<>> (nothing) or <<x>> (the request, the response).
MwInit == mwReq = <<>> /\ mwResp = <<>> /\ mwHops = 0

\* A client sends a request.
MwRequest ==
  /\ mwReq = <<>>
  /\ \E p \in Pathnames, ua \in UserAgents, c \in Cookies :
       mwReq' = <<[path |-> p, ua |-> ua, cookie |-> c]>>
  /\ mwResp' = <<>>
  /\ mwHops' = 0
  /\ UNCHANGED mwOthers

\* The middleware answers the pending request.
MwHandle ==
  /\ mwReq # <<>> /\ mwResp = <<>>
  /\ mwResp' = <<middleware(mwReq[1])>>
  /\ UNCHANGED <<mwReq, mwHops>>
  /\ UNCHANGED mwOthers

\* The client follows a redirect: it requests the target's pathname with the
\* same user-agent and cookie.
MwFollow ==
  /\ mwReq # <<>> /\ mwResp # <<>>
  /\ mwResp[1].kind = "redirect"
  /\ mwHops < MaxHops
  /\ mwReq' = <<[mwReq[1] EXCEPT !.path = mwResp[1].to]>>
  /\ mwResp' = <<>>
  /\ mwHops' = mwHops + 1
  /\ UNCHANGED mwOthers

\* The exchange is over: the response was passed through, or the client
\* follows no further redirect.
MwDone ==
  /\ mwReq # <<>> /\ mwResp # <<>>
  /\ mwResp[1].kind = "next" \/ mwHops = MaxHops
  /\ mwReq' = <<>> /\ mwResp' = <<>> /\ mwHops' = 0
  /\ UNCHANGED mwOthers

MwNext == MwRequest \/ MwHandle \/ MwFollow \/ MwDone


(***************************************************************************)
(* Properties of the routing middleware                                    *)
(***************************************************************************)

\* The request has been answered.
MwAnswered == mwReq # <<>> /\ mwResp # <<>>

\* The paths the middleware lets through before it looks at the user-agent
\* or the cookie: the auth handler, static files and API routes.
MwExempt(pathname) ==
  \/ StartsWith(pathname, <<"/", "__/auth">>)
  \/ isStaticOrApi(pathname)

\* The path is one of the listed public pages or lies under one of them
\* (the root page is the path "/" alone).
MwPublicPage(pathname) ==
  \/ pathname = <<"/">>
  \/ \E p \in publicPaths \ {<<"/">>} : StartsWith(pathname, p)

\* C30: the middleware produces no redirect loop: the target of a redirect it
\* issues, requested again with the same user-agent and cookie, is passed
\* through without a further redirect.
C30_NoRedirectLoop ==
  (MwAnswered /\ mwHops >= 1) => mwResp[1].kind = "next"

\* A signed-in desktop client was sent from an auth page to /dashboard and
\* its request for /dashboard was passed through.
C30_Witness ==
  /\ MwAnswered /\ mwHops = 1
  /\ mwReq[1] = [path |-> <<"/", "dashboard">>, ua |-> "desktop", cookie |-> "tok"]
  /\ mwResp[1] = PassThrough

\* C3: a non-mobile request without a __session cookie for a path under a
\* protected prefix (/dashboard, /settings, /pets) is answered by a redirect
\* to /signin whose redirect parameter is the requested pathname.
C3_ProtectedRedirectsToSignin ==
  MwAnswered =>
    LET req == mwReq[1] IN
    (/\ ~isMobile(req.ua)
     /\ req.cookie = "absent"
     /\ isProtectedPath(req.path)
     /\ ~MwExempt(req.path))
      => mwResp[1] = RedirectTo(<<"/", "signin">>, req.path)

\* C4: a request from a mobile user-agent for a path that is not a public
\* page (and not a static, API or auth-handler path) is answered by a redirect
\* to /mobile-not-supported.
C4_MobileRedirected ==
  MwAnswered =>
    LET req == mwReq[1] IN
    (/\ isMobile(req.ua)
     /\ ~MwPublicPage(req.path)
     /\ ~MwExempt(req.path))
      => mwResp[1] = RedirectTo(<<"/", "mobile-not-supported">>, <<>>)

(***************************************************************************)
(* Pet-scoped views: ownership guard and live subscriptions                *)
(*   overview     src/app/(protected)/pets/[id]/pet-overview-client.tsx    *)
(*   medications  src/app/(protected)/pets/[id]/medications/...            *)
(*   weight       src/app/(protected)/pets/[id]/weight/...                 *)
(*   notes        src/app/(protected)/pets/[id]/notes/notes-client.tsx     *)
(*   feeding      feeding-schedule-client.tsx                              *)
(* One view instance is modelled; which view it is, is drawn in Init.      *)
(***************************************************************************)

\* Effect runs of the view that are followed.
MaxRuns == 2
\* Longest snapshot delivered, in documents.
MaxSnapLen == 2
\* Listener failures followed.
MaxErrors == 1

Views == {"overview", "medications", "weight", "notes", "feeding"}
ListViews == Views \ {"overview"}
RecIds == {"r1", "r2"}

\* The keys of a view's local state: one list per collection it listens to,
\* and the pet record the overview keeps.
StateKeys == {"appointments", "medications", "weights", "notes",
              "feeding-schedules", "pet"}

Collections(kind) ==
  CASE kind = "overview" -> {"appointments", "medications", "weights"}
    [] kind = "medications" -> {"medications"}
    [] kind = "weight" -> {"weights"}
    [] kind = "notes" -> {"notes"}
    [] kind = "feeding" -> {"feeding-schedules"}

\* Day numbers; the overview's today is day 0.
today == 0
DocDates(coll) == IF coll = "appointments" THEN {0, 1} ELSE {0}

\* The snapshots a listener of a query (collection, petId == pet,
\* userId == uid) can deliver: documents in query order, no id twice.
Docs(coll, uid, pet) ==
  [docId : RecIds, petId : {pet}, userId : {uid}, date : DocDates(coll)]

\* The overview's three lists enter no property by their contents: its
\* listeners deliver an empty result or one document.
OverviewSnapshots(coll, uid, pet) ==
  {<<>>} \cup {<<d>> : d \in {x \in Docs(coll, uid, pet) : x.docId = "r1"}}

Snapshots(kind, coll, uid, pet) ==
  IF kind = "overview" THEN OverviewSnapshots(coll, uid, pet)
  ELSE {s \in SeqsUpTo(Docs(coll, uid, pet), MaxSnapLen) :
          \A i, j \in 1..Len(s) : i # j => s[i].docId # s[j].docId}

\* { id: doc.id, ...doc.data() }
DecodeDoc(d) == [id |-> d.docId, petId |-> d.petId, userId |-> d.userId, date |-> d.date]

\* The list a snapshot callback hands to its state setter.
SnapshotToList(kind, coll, snap) ==
  LET decoded == [i \in 1..Len(snap) |-> DecodeDoc(snap[i])]
      IsUpcoming(a) == a.date > today
  IN  IF kind = "overview" /\ coll = "appointments"
        THEN SelectSeq(decoded, IsUpcoming)
        ELSE decoded

\* A buggy callback that merges the snapshot into the list it had.
MergeIntoList(prev, kind, coll, snap) ==
  LET fresh == SnapshotToList(kind, coll, snap)
      IsNew(r) == \A i \in 1..Len(prev) : prev[i].id # r.id
  IN  prev \o SelectSeq(fresh, IsNew)

\* setMedications(medicationsData) and its like: the state setter is handed
\* the list built from the snapshot, whatever the list was before.
NewList(prev, kind, coll, snap) == SnapshotToList(kind, coll, snap)

\* Whether the view's effect returns a cleanup function to React.  Only the
\* notes view does: the others return it from the async setup function, whose
\* result the effect drops.
EffectReturnsCleanup(kind) == kind = "notes"

\* React runs the cleanup registered by effect run c (0: none registered):
\* the run's unsubscribe, when one has been stored by then, is called.
CleanedRuns(runs, c) ==
  IF c = 0 THEN runs ELSE [runs EXCEPT ![c].cleaned = TRUE]
CleanedSubs(subs, c) ==
  IF c = 0 THEN subs ELSE {s \in subs : s.run # c}

\* A guard that forgets to compare the owner.
HasAccessIfExists(fetched, uid) == fetched # NoDoc

\* The ownership check of the guard: the fetched record exists and is the
\* caller's.  fetched is NoDoc or the record's userId.
HasAccess(fetched, uid) == fetched # NoDoc /\ fetched = uid

\* The re-render a state update causes re-runs the overview's effect: its
\* dependency today is a new Date object on every render.
RerunsOnRender(kind) == kind = "overview"

\* The signed-in user of the session that shows the view; the auth context
\* hands the view this user, or null while no user is signed in.
Viewer == "u1"

ViewInit ==
  /\ vKind \in Views
  /\ vMounted = TRUE
  /\ vUser \in {Viewer, Null}
  /\ vPet \in PetIds
  /\ vEffectDue = TRUE
  /\ vCleanup = 0
  /\ vRuns = <<>>
  /\ vSubs = {}
  /\ vList = [k \in StateKeys |-> <<>>]
  /\ vLastSnap = [k \in StateKeys |-> <<>>]
  /\ vLoading = TRUE
  /\ vToasts = {}
  /\ vRedirect = Null
  /\ vErrors = 0
  /\ petOwner = [p \in PetIds |-> IF p = "p1" THEN "u1" ELSE "u2"]

\* React runs the view's effect after a render that changed its dependencies:
\* the previous run's cleanup first, then the effect body.
VRunEffect ==
  /\ vMounted /\ vEffectDue
  /\ Len(vRuns) < MaxRuns
  /\ vEffectDue' = FALSE
  /\ LET runs == CleanedRuns(vRuns, vCleanup)
         subs == CleanedSubs(vSubs, vCleanup)
     IN  IF vUser = Null
           THEN /\ vRuns' = runs
                /\ vSubs' = subs
                /\ vCleanup' = 0
           ELSE /\ vRuns' = Append(runs, [uid |-> vUser, pet |-> vPet,
                                          pc |-> "verifying", fetched |-> "pending",
                                          cleaned |-> FALSE])
                /\ vSubs' = subs
                /\ vCleanup' = IF EffectReturnsCleanup(vKind) THEN Len(runs) + 1 ELSE 0
  /\ UNCHANGED <<vKind, vMounted, vUser, vPet, vList, vLastSnap, vLoading, vToasts,
                 vRedirect, vErrors, petOwner>>
  /\ UNCHANGED viewOthers

\* getDoc of the pet record resolves for effect run i.
VVerifyReturn(i) ==
  /\ vRuns[i].pc = "verifying"
  /\ LET r == vRuns[i]
         fetched == petOwner[r.pet]
     IN  IF HasAccess(fetched, r.uid)
           THEN /\ vRuns' = [vRuns EXCEPT ![i].pc = "listening", ![i].fetched = fetched]
                /\ vSubs' = vSubs \cup {[run |-> i, coll |-> c] : c \in Collections(vKind)}
                /\ vToasts' = vToasts
                /\ vRedirect' = vRedirect
                /\ IF vKind = "overview" /\ vMounted
                     THEN /\ vList' = [vList EXCEPT !["pet"] = <<[id |-> r.pet, userId |-> fetched]>>]
                          /\ vLoading' = FALSE
                          /\ vEffectDue' = TRUE
                     ELSE UNCHANGED <<vList, vLoading, vEffectDue>>
           ELSE /\ vRuns' = [vRuns EXCEPT ![i].pc = "denied", ![i].fetched = fetched]
                /\ vToasts' = vToasts \cup {"Pet not found or access denied."}
                /\ vRedirect' = "/dashboard"
                /\ UNCHANGED <<vSubs, vList, vLoading, vEffectDue>>
  /\ UNCHANGED <<vKind, vMounted, vUser, vPet, vCleanup, vLastSnap, vErrors, petOwner>>
  /\ UNCHANGED viewOthers

\* getDoc of the pet record rejects for effect run i.
VVerifyThrow(i) ==
  /\ vRuns[i].pc = "verifying"
  /\ vRuns' = [vRuns EXCEPT ![i].pc = "failed", ![i].fetched = "error"]
  /\ IF vKind = "overview"
       THEN /\ vToasts' = vToasts \cup {"Could not load pet information. Please try again."}
            /\ vLoading' = IF vMounted THEN FALSE ELSE vLoading
            /\ vEffectDue' = IF vMounted /\ vLoading THEN TRUE ELSE vEffectDue
       ELSE UNCHANGED <<vToasts, vLoading, vEffectDue>>
  /\ UNCHANGED <<vKind, vMounted, vUser, vPet, vCleanup, vSubs, vList, vLastSnap,
                 vRedirect, vErrors, petOwner>>
  /\ UNCHANGED viewOthers

\* An active listener delivers a snapshot to its callback.  The state setters
\* of an unmounted view do nothing; vLastSnap is the last snapshot delivered
\* to a mounted list view.
VSnapshot(sub) ==
  /\ sub \in vSubs
  /\ \E snap \in Snapshots(vKind, sub.coll, vRuns[sub.run].uid, vRuns[sub.run].pet) :
       IF vMounted
         THEN /\ vLastSnap' = IF vKind \in ListViews
                               THEN [vLastSnap EXCEPT ![sub.coll] = <<snap>>]
                               ELSE vLastSnap
              /\ vList' = [vList EXCEPT ![sub.coll] = NewList(vList[sub.coll], vKind, sub.coll, snap)]
              /\ vLoading' = IF vKind = "overview" THEN vLoading ELSE FALSE
              /\ vEffectDue' = IF RerunsOnRender(vKind) THEN TRUE ELSE vEffectDue
         ELSE UNCHANGED <<vLastSnap, vList, vLoading, vEffectDue>>
  /\ UNCHANGED <<vKind, vMounted, vUser, vPet, vCleanup, vRuns, vSubs, vToasts,
                 vRedirect, vErrors, petOwner>>
  /\ UNCHANGED viewOthers

ListErrorToast(kind) ==
  CASE kind = "medications" -> "Could not load medications. Please try again."
    [] kind = "weight" -> "Could not load weight records. Please try again."
    [] kind = "notes" -> "Could not load notes. Please try again."
    [] kind = "feeding" -> "Could not load feeding schedules. Please try again."

\* An active listener fails: the database ends it and calls its error
\* callback, which the overview's listeners do not have.
VSnapshotError(sub) ==
  /\ sub \in vSubs
  /\ vErrors < MaxErrors
  /\ vErrors' = vErrors + 1
  /\ vSubs' = vSubs \ {sub}
  /\ IF vKind = "overview"
       THEN UNCHANGED <<vToasts, vLoading>>
       ELSE /\ vToasts' = vToasts \cup {ListErrorToast(vKind)}
            /\ vLoading' = IF vMounted THEN FALSE ELSE vLoading
  /\ UNCHANGED <<vKind, vMounted, vUser, vPet, vEffectDue, vCleanup, vRuns, vList,
                 vLastSnap, vRedirect, petOwner>>
  /\ UNCHANGED viewOthers

\* The view is re-rendered with another user or pet id (React has flushed the
\* effects of the previous render by then).
VChangeProps ==
  /\ vMounted /\ ~vEffectDue
  /\ \E u \in {Viewer, Null}, p \in PetIds :
       /\ <<u, p>> # <<vUser, vPet>>
       /\ vUser' = u
       /\ vPet' = p
  /\ vEffectDue' = TRUE
  /\ UNCHANGED <<vKind, vMounted, vCleanup, vRuns, vSubs, vList, vLastSnap, vLoading,
                 vToasts, vRedirect, vErrors, petOwner>>
  /\ UNCHANGED viewOthers

\* The view unmounts: React runs the cleanup of its last effect run.
VUnmount ==
  /\ vMounted
  /\ vMounted' = FALSE
  /\ vEffectDue' = FALSE
  /\ vRuns' = CleanedRuns(vRuns, vCleanup)
  /\ vSubs' = CleanedSubs(vSubs, vCleanup)
  /\ vCleanup' = 0
  /\ UNCHANGED <<vKind, vUser, vPet, vList, vLastSnap, vLoading, vToasts, vRedirect,
                 vErrors, petOwner>>
  /\ UNCHANGED viewOthers

\* The pet record is deleted in the database.
VPetDelete ==
  /\ \E p \in PetIds :
       /\ petOwner[p] # NoDoc
       /\ petOwner' = [petOwner EXCEPT ![p] = NoDoc]
  /\ UNCHANGED <<vKind, vMounted, vUser, vPet, vEffectDue, vCleanup, vRuns, vSubs,
                 vList, vLastSnap, vLoading, vToasts, vRedirect, vErrors>>
  /\ UNCHANGED viewOthers

ViewNext ==
  \/ VRunEffect
  \/ \E i \in 1..Len(vRuns) : VVerifyReturn(i)
  \/ \E i \in 1..Len(vRuns) : VVerifyThrow(i)
  \/ \E sub \in vSubs : VSnapshot(sub)
  \/ \E sub \in vSubs : VSnapshotError(sub)
  \/ VChangeProps
  \/ VUnmount
  \/ VPetDelete



(***************************************************************************)
(* Properties of the pet-scoped views                                      *)
(***************************************************************************)

\* The outcome of an effect run's fetch of the pet record, once it returned:
\* NoDoc or the record's userId.
Returned(r) == r.fetched \notin {"pending", "error"}

\* C1: in every pet-scoped view a listener is active only for an effect run
\* whose fetch of the pet record returned an existing record with userId equal
\* to the uid of the user the run was started for; a run whose fetch returned no
\* record or another user's record has redirected to /dashboard, shown the
\* error notification and has no listener.
C1_SubscribeOnlyAfterOwnedFetch ==
  /\ \A s \in vSubs :
       /\ Returned(vRuns[s.run])
       /\ vRuns[s.run].fetched # NoDoc
       /\ vRuns[s.run].fetched = vRuns[s.run].uid
  /\ \A i \in 1..Len(vRuns) :
       (Returned(vRuns[i]) /\ vRuns[i].fetched # vRuns[i].uid) =>
         /\ vRedirect = "/dashboard"
         /\ "Pet not found or access denied." \in vToasts
         /\ \A s \in vSubs : s.run # i

\* C1 witness: one run was refused on another user's pet while a listener of
\* an earlier, verified run is active.
C1_Witness ==
  /\ \E i \in 1..Len(vRuns) : vRuns[i].pc = "denied" /\ vRuns[i].fetched = "u2"
  /\ \E s \in vSubs : vRuns[s.run].pc = "listening"

\* C5: the step that unmounts the view leaves none of its listeners active,
\* and the step that runs its effect again for a changed user or pet id leaves
\* no listener of the earlier user or pet active.
C5_TeardownClosesListeners ==
  [][/\ (vMounted /\ ~vMounted') => vSubs' = {}
     /\ (Len(vRuns') > Len(vRuns)) =>
          \A s \in vSubs' : vRuns'[s.run].uid = vUser /\ vRuns'[s.run].pet = vPet]_vars

\* C6: in the list views the local list is exactly the most recently delivered
\* snapshot, record by record and in snapshot order.
C6_ListIsLatestSnapshot ==
  vKind \in ListViews =>
    \A c \in Collections(vKind) :
      vLastSnap[c] # <<>> =>
        LET snap == vLastSnap[c][1] IN
        /\ Len(vList[c]) = Len(snap)
        /\ \A i \in 1..Len(snap) :
             /\ vList[c][i].id = snap[i].docId
             /\ vList[c][i].petId = snap[i].petId
             /\ vList[c][i].userId = snap[i].userId
             /\ vList[c][i].date = snap[i].date

\* C6 witness: a list view shows a two-record snapshot in the order r2, r1,
\* delivered by the listener of its second effect run.
C6_Witness ==
  /\ vKind \in ListViews
  /\ \E c \in Collections(vKind) :
       /\ Len(vList[c]) = 2
       /\ vList[c][1].id = "r2" /\ vList[c][2].id = "r1"
       /\ vList[c][1].petId = "p1"
       /\ Len(vRuns) = 2

\* C26: while the overview stays mounted for one user and pet id it holds
\* at most one active listener per collection, and the re-renders caused by
\* its own state updates do not run the subscription effect (and with it the
\* pet fetch) again.
C26_OverviewSubscribesOnce ==
  (/\ vKind = "overview"
   /\ \A i \in 1..Len(vRuns) : vRuns[i].uid = vUser /\ vRuns[i].pet = vPet) =>
    /\ \A c \in Collections("overview") :
         Cardinality({s \in vSubs : s.coll = c}) <= 1
    /\ Len(vRuns) <= 1

\* C27: in the notes view no listener is active for an effect run whose
\* cleanup has run: when the cleanup ran while the ownership verification was
\* pending, the run opens no listener afterwards or closes the one it opens.
C27_NoListenerAfterCleanup ==
  vKind = "notes" => \A s \in vSubs : ~vRuns[s.run].cleaned

\* C16: every failed external call of a view ends in a user-visible
\* notification: once an ownership fetch has thrown, a notification has been
\* shown (so that the view does not stay in its loading state unexplained).
C16_FailureIsNotified ==
  \A i \in DOMAIN vRuns : vRuns[i].fetched = "error" => vToasts # {}

(***************************************************************************)
(* Delete handlers                                                         *)
(*   pet          EditPetDialog handleDelete                               *)
(*   appointment  EditAppointmentDialog onDelete                           *)
(*   medication   MedicationsClient handleDelete                           *)
(*   feeding      EditFeedingScheduleDialog onDelete                       *)
(*   note         NotesClient handleDeleteNote                             *)
(* One handler and its target record are modelled; which handler it is, is *)
(* drawn in Init.                                                          *)
(***************************************************************************)

Handlers == {"pet", "appointment", "medication", "feeding", "note"}

\* The handlers of the edit dialogs, which keep an in-flight flag and close
\* their dialog on success; the two others live in a view.
DialogHandlers == {"pet", "appointment", "feeding"}

\* A handler that deletes without fetching the record first.
RefetchesNothing(kind) == FALSE

\* Whether the handler fetches the target record and checks its owner before
\* it deletes.
RefetchesBeforeDelete(kind) == kind # "medication"

\* Whether the handler tells a signed-out user that a login is needed.
ToastsWhenSignedOut(kind) == kind # "note"

DelInit ==
  /\ dKind \in Handlers
  /\ dUser \in {Viewer, Null}
  /\ dOwner \in Users \cup {NoDoc}
  /\ dImage \in (IF dKind = "pet" THEN {"none", "stored"} ELSE {"none"})
  /\ dPc = "idle"
  /\ dFetch = "none"
  /\ dLoading = FALSE
  /\ dOpen = TRUE
  /\ dToasts = {}
  /\ dLog = <<>>

\* try/catch/finally of a dialog handler that failed: the error notification,
\* and the in-flight flag cleared.
DFailed ==
  /\ dPc' = "idle"
  /\ dToasts' = dToasts \cup {"error"}
  /\ dLoading' = FALSE
  /\ UNCHANGED dOpen

\* The user confirms the deletion: the handler runs up to its first await.
DStart ==
  /\ dPc = "idle" /\ dOpen
  /\ IF dUser = Null
       THEN /\ dToasts' = IF ToastsWhenSignedOut(dKind)
                            THEN dToasts \cup {"login"} ELSE dToasts
            /\ dLog' = <<>>
            /\ dFetch' = "none"
            /\ UNCHANGED <<dPc, dLoading>>
       ELSE /\ dLoading' = (dKind \in DialogHandlers)
            /\ dFetch' = "none"
            /\ dToasts' = dToasts
            /\ IF RefetchesBeforeDelete(dKind)
                 THEN dPc' = "fetching" /\ dLog' = <<"getDoc">>
                 ELSE dPc' = "deleting" /\ dLog' = <<"deleteDoc">>
  /\ UNCHANGED <<dKind, dUser, dOwner, dImage, dOpen>>
  /\ UNCHANGED delOthers

\* getDoc of the target record resolves.
DFetchReturn ==
  /\ dPc = "fetching"
  /\ dFetch' = dOwner
  /\ IF HasAccess(dOwner, dUser)
       THEN /\ IF dKind = "pet" /\ dImage # "none"
                 THEN dPc' = "deletingImage" /\ dLog' = Append(dLog, "deletePetImage")
                 ELSE dPc' = "deleting" /\ dLog' = Append(dLog, "deleteDoc")
            /\ UNCHANGED <<dToasts, dLoading, dOpen>>
       ELSE DFailed /\ UNCHANGED dLog
  /\ UNCHANGED <<dKind, dUser, dOwner, dImage>>
  /\ UNCHANGED delOthers

\* getDoc of the target record rejects.
DFetchThrow ==
  /\ dPc = "fetching"
  /\ DFailed
  /\ UNCHANGED <<dKind, dUser, dOwner, dImage, dFetch, dLog>>
  /\ UNCHANGED delOthers

\* deletePetImage resolves (the blob is gone) or rejects.
DImageDone ==
  /\ dPc = "deletingImage"
  /\ \/ /\ dImage' = "deleted"
        /\ dPc' = "deleting"
        /\ dLog' = Append(dLog, "deleteDoc")
        /\ UNCHANGED <<dToasts, dLoading, dOpen>>
     \/ /\ DFailed
        /\ UNCHANGED <<dImage, dLog>>
  /\ UNCHANGED <<dKind, dUser, dOwner, dFetch>>
  /\ UNCHANGED delOthers

\* deleteDoc resolves (the record is gone) or rejects.
DDeleteDone ==
  /\ dPc = "deleting"
  /\ \/ /\ dOwner' = NoDoc
        /\ dPc' = "idle"
        /\ dToasts' = dToasts \cup {"success"}
        /\ dLoading' = FALSE
        /\ dOpen' = IF dKind \in DialogHandlers THEN FALSE ELSE dOpen
     \/ /\ DFailed
        /\ UNCHANGED dOwner
  /\ UNCHANGED <<dKind, dUser, dImage, dFetch, dLog>>
  /\ UNCHANGED delOthers

\* Another client deletes the target record.
DRecordGone ==
  /\ dOwner # NoDoc
  /\ dOwner' = NoDoc
  /\ UNCHANGED <<dKind, dUser, dImage, dPc, dFetch, dLoading, dOpen, dToasts, dLog>>
  /\ UNCHANGED delOthers

DelNext ==
  \/ DStart
  \/ DFetchReturn
  \/ DFetchThrow
  \/ DImageDone
  \/ DDeleteDone
  \/ DRecordGone

(***************************************************************************)
(* Properties of the delete handlers                                       *)
(***************************************************************************)

Issued(call) == \E i \in 1..Len(dLog) : dLog[i] = call

\* C2: a delete handler issues deleteDoc only after it fetched the target
\* record and found that it exists with userId equal to the current user's
\* uid.
C2_DeleteOnlyAfterOwnershipCheck ==
  Issued("deleteDoc") =>
    /\ \E i, j \in 1..Len(dLog) : i < j /\ dLog[i] = "getDoc" /\ dLog[j] = "deleteDoc"
    /\ dFetch # NoDoc
    /\ dFetch = dUser

IsPrefix(s, t) == Len(s) <= Len(t) /\ \A i \in 1..Len(s) : s[i] = t[i]

\* C24: deleting a pet calls the ownership fetch, the image delete and the
\* document delete in that order; when the fetch or the image delete fails
\* the document delete is not issued, and when the document delete fails
\* after the image was deleted nothing is rolled back: the image stays
\* deleted and the pet document stays.
C24_PetDeleteOrder ==
  [][dKind = "pet" =>
       /\ IsPrefix(dLog', IF dImage' = "none" THEN <<"getDoc", "deleteDoc">>
                          ELSE <<"getDoc", "deletePetImage", "deleteDoc">>)
       /\ (dPc \in {"fetching", "deletingImage"} /\ dPc' = "idle") =>
            /\ dLog' = dLog /\ "deleteDoc" \notin {dLog[i] : i \in 1..Len(dLog)}
            /\ dOwner' = dOwner
            /\ "error" \in dToasts' /\ ~dLoading'
       /\ (dPc = "deleting" /\ dPc' = "idle" /\ dOpen') =>
            /\ dImage' = dImage /\ dOwner' = dOwner /\ dLog' = dLog
            /\ "error" \in dToasts' /\ ~dLoading']_vars

\* The document delete of a pet failed after its image was deleted: the pet
\* document is still there and its image is gone.
C24_Witness ==
  /\ dKind = "pet" /\ dPc = "idle" /\ dOpen
  /\ dLog = <<"getDoc", "deletePetImage", "deleteDoc">>
  /\ dImage = "deleted" /\ dOwner = Viewer
  /\ "error" \in dToasts

(***************************************************************************)
(* Dates (src/lib/date.ts over date-fns)                                   *)
(*                                                                         *)
(* An instant is a number of ticks; a calendar date string 'yyyy-MM-dd' is *)
(* the number of its day.                                                  *)
(***************************************************************************)

\* Instants per calendar day.
TicksPerDay == 2

startOfDay(t) == t - (t % TicksPerDay)
addDays(t, n) == t + n * TicksPerDay
\* parseISO of a date-only string: local midnight of that day.
parseISO(d) == d * TicksPerDay
isBefore(a, b) == a < b
isAfter(a, b) == a > b
\* date-fns isToday, with the clock reading made explicit.
isToday(t, now) == startOfDay(t) = startOfDay(now)

\* Default of isDueSoon's daysThreshold parameter.
daysThreshold == 7

isDueSoon(dueDate, now) ==
  LET today0 == startOfDay(now)
      due == parseISO(dueDate)
      nearFuture == addDays(today0, daysThreshold)
  IN \/ isToday(due, now)
     \/ isBefore(due, today0)
     \/ (isAfter(due, today0) /\ isBefore(due, nearFuture))

isOverdue(dueDate, now) ==
  LET today0 == startOfDay(now)
      due == parseISO(dueDate)
  IN isBefore(due, today0)

(***************************************************************************)
(* Medication status badge (MedicationCard.getStatusBadge)                 *)
(***************************************************************************)

\* Last day a medication may be due on, and last tick of the clock.
MaxDueDay == 11
MaxNow == 5

\* The clock starts on day 1, so that day 0 is in the past.
FirstNow == TicksPerDay

Statuses == {"active", "completed", "discontinued"}
\* Whatever else the status string of a stored record may hold.
StoredStatuses == Statuses \cup {"paused"}
\* An optional date field: <<>> when the record has none (null, undefined or
\* the empty string), <<d>> when it holds the date string of day d.
NoDate == <<>>
DueDates == {NoDate} \cup {<<d>> : d \in 0..MaxDueDay}

\* The label of the badge element, Null when nothing is rendered.
getStatusBadge(medication, now) ==
  CASE medication.status = "active" ->
         IF medication.nextDueDate = NoDate THEN "Active"
         ELSE IF isOverdue(medication.nextDueDate[1], now) THEN "Overdue"
         ELSE IF isDueSoon(medication.nextDueDate[1], now) THEN "Due Soon"
         ELSE "Active"
    [] medication.status = "completed" -> "Completed"
    [] medication.status = "discontinued" -> "Discontinued"
    [] OTHER -> Null

\* capitalizeFirst on the stored statuses.
capitalizeFirst(status) ==
  CASE status = "active" -> "Active"
    [] status = "completed" -> "Completed"
    [] status = "discontinued" -> "Discontinued"
    [] OTHER -> status

\* The status Badge of the overview's medication list; today is
\* startOfDay(new Date()) of the render.
overviewBadge(medication, now) ==
  IF /\ medication.status = "active"
     /\ medication.nextDueDate # NoDate
     /\ ~isAfter(parseISO(medication.nextDueDate[1]), startOfDay(now))
  THEN "Overdue"
  ELSE capitalizeFirst(medication.status)

\* The overview and the card of the medications view render the same
\* medication at the same time.
BadgeInit ==
  /\ bNow \in FirstNow..MaxNow
  /\ bMed \in [status : StoredStatuses, nextDueDate : DueDates]
  /\ bBadge = "unrendered"
  /\ bOverview = "unrendered"

\* The card renders: the clock is read and the badge computed.
BRender ==
  /\ \E t \in bNow..MaxNow :
       /\ bNow' = t
       /\ bBadge' = getStatusBadge(bMed, t)
       /\ bOverview' = overviewBadge(bMed, t)
  /\ UNCHANGED bMed
  /\ UNCHANGED badgeOthers

\* The list hands the card another medication; the card renders with it.
BNewProps ==
  /\ bBadge # "unrendered"
  /\ \E m \in [status : StoredStatuses, nextDueDate : DueDates] :
       /\ m # bMed
       /\ bMed' = m
       /\ bBadge' = getStatusBadge(m, bNow)
       /\ bOverview' = overviewBadge(m, bNow)
  /\ UNCHANGED bNow
  /\ UNCHANGED badgeOthers

BadgeNext == BRender \/ BNewProps

(***************************************************************************)
(* Properties of the badge                                                 *)
(***************************************************************************)

\* The calendar day the clock reads.
DayOf(t) == t \div TicksPerDay

\* C9: an active medication with a nextDueDate shows Overdue when the date
\* is before today, Due Soon when it is today or at most 7 days after today
\* (day 7 included), and Active otherwise; completed and discontinued show
\* Completed and Discontinued.
C9_BadgePolicy ==
  bBadge # "unrendered" =>
    LET day == DayOf(bNow) IN
    /\ (bMed.status = "active" /\ bMed.nextDueDate # NoDate) =>
         bBadge = IF bMed.nextDueDate[1] < day THEN "Overdue"
                  ELSE IF bMed.nextDueDate[1] <= day + 7 THEN "Due Soon"
                  ELSE "Active"
    /\ bMed.status = "completed" => bBadge = "Completed"
    /\ bMed.status = "discontinued" => bBadge = "Discontinued"

\* C22: the overview labels an active medication Overdue exactly when its
\* nextDueDate is before today, so the overview and MedicationCard agree on
\* whether a medication is Overdue; one due today is Overdue in neither.
C22_OverviewAgreesOnOverdue ==
  bBadge # "unrendered" =>
    /\ (bOverview = "Overdue") <=> (bBadge = "Overdue")
    /\ (bOverview = "Overdue") <=>
          /\ bMed.status = "active"
          /\ bMed.nextDueDate # NoDate
          /\ bMed.nextDueDate[1] < DayOf(bNow)

(***************************************************************************)
(* Dashboard page (DashboardPage)                                          *)
(***************************************************************************)

\* Most pets a user owns.
MaxPets == 6
\* The limit(5) of the dashboard's three queries.
queryLimit == 5

DashPetIds == 1..MaxPets
\* Names of the pets, by pet id; a pet can be renamed.
PetNameTable == <<"Rex", "Tom", "Ace", "Bo", "Cy", "Dot", "Eve", "Fay">>
Renamed == "Max"

Min(a, b) == IF a < b THEN a ELSE b

\* The pets query result when the user owns n pets: at most queryLimit
\* documents.
PetsSnapshot(n, renamed) ==
  [i \in 1..Min(n, queryLimit) |->
     [id |-> i,
      name |-> IF i = 1 /\ renamed THEN Renamed ELSE PetNameTable[i]]]

AptIds == {"a1", "a2"}
MedIds == {"m1", "m2"}
\* The pet each stored record belongs to.
DocPet == [a1 |-> 1, a2 |-> 2, m1 |-> 1, m2 |-> 2]
AptDates == 1..3
MedDueDates == {NoDate, <<1>>, <<8>>}

AptDocs == {[id |-> i, petId |-> DocPet[i], date |-> d] : i \in AptIds, d \in AptDates}
MedDocs ==
  {[id |-> i, petId |-> DocPet[i], nextDueDate |-> d] : i \in MedIds, d \in MedDueDates}

DistinctIds(s) == \A i, j \in 1..Len(s) : i # j => s[i].id # s[j].id

\* Firestore orders a missing (null) value before every date.
DateKey(d) == IF d = NoDate THEN -1 ELSE d[1]

\* orderBy('date', 'asc')
AptSnapshots ==
  {s \in SeqsUpTo(AptDocs, Cardinality(AptIds)) :
     /\ DistinctIds(s)
     /\ \A i \in 1..(Len(s) - 1) : s[i].date <= s[i + 1].date}

\* orderBy('nextDueDate', 'asc')
MedSnapshots ==
  {s \in SeqsUpTo(MedDocs, Cardinality(MedIds)) :
     /\ DistinctIds(s)
     /\ \A i \in 1..(Len(s) - 1) :
          DateKey(s[i].nextDueDate) <= DateKey(s[i + 1].nextDueDate)}

\* petNames.get(petId): undefined when the pet is not in the pets snapshot.
petNamesGet(pets, petId) ==
  IF \E i \in 1..Len(pets) : pets[i].id = petId
  THEN LET i == CHOOSE k \in 1..Len(pets) : pets[k].id = petId IN pets[i].name
  ELSE Null

\* { ...item, petName: petNames.get(item.petId) }
WithPetName(pets, item) == [item EXCEPT !.petName = petNamesGet(pets, item.petId)]

\* A record as read from a snapshot: it has no petName.
AptItem(d) == [id |-> d.id, petId |-> d.petId, date |-> d.date, petName |-> Null]
MedItem(d) ==
  [id |-> d.id, petId |-> d.petId, nextDueDate |-> d.nextDueDate, petName |-> Null]


MapSeq(s, Op(_)) == [i \in 1..Len(s) |-> Op(s[i])]

DashInit ==
  /\ dashUser \in {Viewer, Null}
  /\ dashNow \in FirstNow..MaxNow
  /\ dashToday = 0
  /\ dashPc = "mounting"
  /\ dashPets = <<>>
  /\ dashApts = <<>>
  /\ dashMeds = <<>>
  /\ dashStats = [totalPets |-> 0, upcomingAppointments |-> 0,
                  activeMedications |-> 0, dueMedications |-> 0]
  /\ dashFired = {}
  /\ dashLoading = TRUE
  /\ dashSnap = [owned |-> 0, appointments |-> <<>>, medications |-> <<>>]

\* The effect runs: without a user it returns, otherwise it reads the clock
\* and opens the three listeners.
DashRunEffect ==
  /\ dashPc = "mounting"
  /\ IF dashUser = Null
     THEN dashPc' = "idle" /\ UNCHANGED dashToday
     ELSE dashPc' = "listening" /\ dashToday' = startOfDay(dashNow)
  /\ UNCHANGED <<dashUser, dashNow, dashPets, dashApts, dashMeds, dashStats,
                 dashFired, dashLoading, dashSnap>>
  /\ UNCHANGED dashOthers

\* The pets listener fires.
DashPetsSnapshot ==
  /\ dashPc = "listening"
  /\ \E n \in 0..MaxPets, renamed \in BOOLEAN :
       LET pets == PetsSnapshot(n, renamed)
           Name(item) == WithPetName(pets, item)
       IN /\ dashStats' = [dashStats EXCEPT !.totalPets = Len(pets)]
          /\ dashPets' = pets
          /\ dashApts' = MapSeq(dashApts, Name)
          /\ dashMeds' = MapSeq(dashMeds, Name)
          /\ dashSnap' = [dashSnap EXCEPT !.owned = n]
  /\ dashFired' = dashFired \cup {"pets"}
  /\ UNCHANGED <<dashUser, dashNow, dashToday, dashPc, dashLoading>>
  /\ UNCHANGED dashOthers

\* The appointments listener fires.
DashAppointmentsSnapshot ==
  /\ dashPc = "listening"
  /\ \E snapshot \in AptSnapshots :
       LET Upcoming(apt) == isAfter(parseISO(apt.date), dashToday)
           appointments == SelectSeq(snapshot, Upcoming)
       IN /\ dashStats' = [dashStats EXCEPT !.upcomingAppointments = Len(appointments)]
          /\ dashApts' = MapSeq(appointments, AptItem)
          /\ dashSnap' = [dashSnap EXCEPT !.appointments = snapshot]
  /\ dashFired' = dashFired \cup {"appointments"}
  /\ UNCHANGED <<dashUser, dashNow, dashToday, dashPc, dashPets, dashMeds,
                 dashLoading>>
  /\ UNCHANGED dashOthers

\* The medications listener fires.
DashMedicationsSnapshot ==
  /\ dashPc = "listening"
  /\ \E snapshot \in MedSnapshots :
       LET Listed(med) ==
             med.nextDueDate # NoDate /\ isDueSoon(med.nextDueDate[1], dashNow)
           Due(med) ==
             med.nextDueDate # NoDate /\ isOverdue(med.nextDueDate[1], dashNow)
           medications == SelectSeq(snapshot, Listed)
           dueMeds == SelectSeq(medications, Due)
       IN /\ dashStats' = [dashStats EXCEPT !.activeMedications = Len(medications),
                                            !.dueMedications = Len(dueMeds)]
          /\ dashMeds' = MapSeq(medications, MedItem)
          /\ dashSnap' = [dashSnap EXCEPT !.medications = snapshot]
  /\ dashFired' = dashFired \cup {"medications"}
  /\ dashLoading' = FALSE
  /\ UNCHANGED <<dashUser, dashNow, dashToday, dashPc, dashPets, dashApts>>
  /\ UNCHANGED dashOthers

\* Time passes while the dashboard is open.
DashTick ==
  /\ dashPc = "listening"
  /\ dashNow < MaxNow
  /\ dashNow' = dashNow + 1
  /\ UNCHANGED <<dashUser, dashToday, dashPc, dashPets, dashApts, dashMeds,
                 dashStats, dashFired, dashLoading, dashSnap>>
  /\ UNCHANGED dashOthers

\* The page unmounts: the effect's cleanup closes the three listeners.
DashUnmount ==
  /\ dashPc \in {"idle", "listening"}
  /\ dashPc' = "closed"
  /\ UNCHANGED <<dashUser, dashNow, dashToday, dashPets, dashApts, dashMeds,
                 dashStats, dashFired, dashLoading, dashSnap>>
  /\ UNCHANGED dashOthers

DashNext ==
  \/ DashRunEffect
  \/ DashPetsSnapshot
  \/ DashAppointmentsSnapshot
  \/ DashMedicationsSnapshot
  \/ DashTick
  \/ DashUnmount

(***************************************************************************)
(* Properties of the dashboard                                             *)
(***************************************************************************)

InPets(petId) == \E i \in 1..Len(dashPets) : dashPets[i].id = petId

\* C7: once the pets, appointments and medications callbacks have all fired,
\* every listed appointment and medication whose petId is in the current
\* pets snapshot carries that pet's name, whatever the order the callbacks
\* fired in.
C7_PetNamesAttached ==
  dashFired = {"pets", "appointments", "medications"} =>
    /\ \A i \in 1..Len(dashApts) :
         InPets(dashApts[i].petId) =>
           dashApts[i].petName = petNamesGet(dashPets, dashApts[i].petId)
    /\ \A i \in 1..Len(dashMeds) :
         InPets(dashMeds[i].petId) =>
           dashMeds[i].petName = petNamesGet(dashPets, dashMeds[i].petId)

\* C19: the step that delivers a medications snapshot sets activeMedications
\* to the number of its medications whose nextDueDate is in the due-soon
\* window (isDueSoon: overdue, today or within the horizon) and
\* dueMedications to the number of those due before today, so that
\* dueMedications <= activeMedications in every state; the step that
\* delivers an appointments snapshot sets upcomingAppointments to the number
\* of its appointments dated strictly after today (the day of the clock at
\* that step).
C19_DashboardCounts ==
  [][LET InWindow(med) ==
           med.nextDueDate # NoDate /\ isDueSoon(med.nextDueDate[1], dashNow)
         BeforeToday(med) ==
           InWindow(med) /\ isBefore(parseISO(med.nextDueDate[1]), startOfDay(dashNow))
         AfterToday(apt) == isAfter(parseISO(apt.date), startOfDay(dashNow))
     IN /\ dashSnap'.medications # dashSnap.medications =>
             /\ dashStats'.activeMedications =
                  Len(SelectSeq(dashSnap'.medications, InWindow))
             /\ dashStats'.dueMedications =
                  Len(SelectSeq(dashSnap'.medications, BeforeToday))
        /\ dashSnap'.appointments # dashSnap.appointments =>
             dashStats'.upcomingAppointments =
               Len(SelectSeq(dashSnap'.appointments, AfterToday))
        /\ dashStats'.dueMedications <= dashStats'.activeMedications]_vars

\* C20: once the pets listener has fired, totalPets is the number of pet
\* records the signed-in user owns, however many there are.
C20_TotalPetsIsOwnedCount ==
  "pets" \in dashFired => dashStats.totalPets = dashSnap.owned

(***************************************************************************)
(* Auth provider and session cookie (AuthProvider)                         *)
(***************************************************************************)

\* Sign-ins, sign-outs and effect re-runs in one behaviour.
MaxAuthEvents == 3

NoCookie == "absent"
\* The ID token of a user, as the value of the __session cookie.
TokenOf(u) == u

NoFetches == [u \in Users |-> 0]

AuthInit ==
  /\ authCurrent \in Users \cup {Null}
  /\ ctxUser = Null
  /\ cookie \in {NoCookie, IF authCurrent = Null THEN NoCookie ELSE TokenOf(authCurrent)}
  /\ authQueue = <<authCurrent>>
  /\ authPending = NoFetches
  /\ signOutPc = "idle"
  /\ authEvents = 0

\* signIn / signUp / signInWithGoogle / confirmPhoneSignIn succeed at the
\* provider, which notifies the listener.
AuthSignIn ==
  /\ authEvents < MaxAuthEvents
  /\ authCurrent = Null
  /\ signOutPc = "idle"
  /\ \E u \in Users :
       /\ authCurrent' = u
       /\ authQueue' = Append(authQueue, u)
  /\ authEvents' = authEvents + 1
  /\ UNCHANGED <<ctxUser, cookie, authPending, signOutPc>>
  /\ UNCHANGED authOthers

\* pathname or searchParams change: the effect re-runs and the new listener
\* is told the current user.
AuthEffectRerun ==
  /\ authEvents < MaxAuthEvents
  /\ signOutPc = "idle"
  /\ authQueue' = Append(authQueue, authCurrent)
  /\ authEvents' = authEvents + 1
  /\ UNCHANGED <<authCurrent, ctxUser, cookie, authPending, signOutPc>>
  /\ UNCHANGED authOthers

\* The listener's callback up to its await.
AuthCallback ==
  /\ authQueue # <<>>
  /\ LET user == Head(authQueue) IN
       /\ ctxUser' = user
       /\ IF user # Null
          THEN /\ authPending' = [authPending EXCEPT ![user] = @ + 1]
               /\ UNCHANGED cookie
          ELSE /\ cookie' = NoCookie
               /\ UNCHANGED authPending
  /\ authQueue' = Tail(authQueue)
  /\ UNCHANGED <<authCurrent, signOutPc, authEvents>>
  /\ UNCHANGED authOthers

\* getIdToken resolves and the callback continues with setCookie.
AuthTokenResolve ==
  /\ \E u \in Users :
       /\ authPending[u] > 0
       /\ authPending' = [authPending EXCEPT ![u] = @ - 1]
       /\ cookie' = TokenOf(u)
  /\ UNCHANGED <<authCurrent, ctxUser, authQueue, signOutPc, authEvents>>
  /\ UNCHANGED authOthers

\* getIdToken rejects: the callback ends there.
AuthTokenReject ==
  /\ \E u \in Users :
       /\ authPending[u] > 0
       /\ authPending' = [authPending EXCEPT ![u] = @ - 1]
  /\ UNCHANGED <<authCurrent, ctxUser, cookie, authQueue, signOutPc, authEvents>>
  /\ UNCHANGED authOthers

\* signOut is called.
SignOutStart ==
  /\ authEvents < MaxAuthEvents
  /\ signOutPc = "idle"
  /\ ctxUser # Null
  /\ signOutPc' = "firebaseSignOut"
  /\ authEvents' = authEvents + 1
  /\ UNCHANGED <<authCurrent, ctxUser, cookie, authQueue, authPending>>
  /\ UNCHANGED authOthers

\* firebaseSignOut resolves: the provider has no user and has notified the
\* listener.
SignOutProviderDone ==
  /\ signOutPc = "firebaseSignOut"
  /\ authCurrent' = Null
  /\ authQueue' = IF authCurrent # Null THEN Append(authQueue, Null) ELSE authQueue
  /\ signOutPc' = "destroyCookie"
  /\ UNCHANGED <<ctxUser, cookie, authPending, authEvents>>
  /\ UNCHANGED authOthers

\* firebaseSignOut rejects: signOut logs and rethrows.
SignOutProviderFail ==
  /\ signOutPc = "firebaseSignOut"
  /\ signOutPc' = "idle"
  /\ UNCHANGED <<authCurrent, ctxUser, cookie, authQueue, authPending, authEvents>>
  /\ UNCHANGED authOthers

SignOutDestroyCookie ==
  /\ signOutPc = "destroyCookie"
  /\ cookie' = NoCookie
  /\ signOutPc' = "navigate"
  /\ UNCHANGED <<authCurrent, ctxUser, authQueue, authPending, authEvents>>
  /\ UNCHANGED authOthers

\* window.location.href = redirectTo takes effect: the page is loaded anew,
\* with a new provider whose listener is told the current user.
SignOutNavigate ==
  /\ signOutPc = "navigate"
  /\ ctxUser' = Null
  /\ authQueue' = <<authCurrent>>
  /\ authPending' = NoFetches
  /\ signOutPc' = "idle"
  /\ UNCHANGED <<authCurrent, cookie, authEvents>>
  /\ UNCHANGED authOthers

AuthNext ==
  \/ AuthSignIn
  \/ AuthEffectRerun
  \/ AuthCallback
  \/ AuthTokenResolve
  \/ AuthTokenReject
  \/ SignOutStart
  \/ SignOutProviderDone
  \/ SignOutProviderFail
  \/ SignOutDestroyCookie
  \/ SignOutNavigate

(***************************************************************************)
(* Properties of the auth provider                                         *)
(***************************************************************************)

\* No listener notification waits to be delivered and no callback waits
\* for its token.
AuthCallbacksDone == authQueue = <<>> /\ authPending = NoFetches

\* C8: whenever every pending auth-state callback has completed, the
\* __session cookie is present exactly when the current user is non-null,
\* whatever the interleaving of a sign-out with a pending token fetch.
C8_CookieMirrorsAuthState ==
  AuthCallbacksDone => (cookie # NoCookie <=> ctxUser # Null)

\* The sign-out case on its own: after signOut has destroyed the cookie and
\* every callback has completed, the cookie is absent.
AuthCookieAbsentAfterSignOut ==
  (AuthCallbacksDone /\ signOutPc = "navigate") => cookie = NoCookie

(***************************************************************************)
(* Medication dialogs and their validation (AddMedicationDialog,           *)
(* EditMedicationDialog, medicationSchema)                                 *)
(***************************************************************************)

\* Submissions in one behaviour.
MaxSubmits == 2

EmptyString == ""
Undefined == "undefined"

\* What an <input type="date"> can hold besides the empty string.
DateStrings == {"2024-01-01", "2024-01-02"}
DayNumber == [s \in DateStrings |-> IF s = "2024-01-01" THEN 1 ELSE 2]
DateInputs == {EmptyString} \cup DateStrings
NameInputs == {EmptyString, "Amoxicillin"}

\* date-fns parse(s, 'yyyy-MM-dd', new Date()): <<t>> for the instant t, <<>>
\* for an Invalid Date; it does not throw.
InvalidDate == <<>>
parse(s) == IF s \in DateStrings THEN <<parseISO(DayNumber[s])>> ELSE InvalidDate
\* Comparisons with an Invalid Date are false.
isAfterDate(a, b) == a # InvalidDate /\ b # InvalidDate /\ isAfter(a[1], b[1])
sameTime(a, b) == a # InvalidDate /\ b # InvalidDate /\ a[1] = b[1]

\* JavaScript truthiness of an optional string.
Truthy(s) == s \notin {EmptyString, Undefined, Null}

\* z.string().refine(...): any string passes, because the refinement returns
\* true unless parse throws.
dateStringSchema(s) == s \notin {Undefined, Null}

\* The object schema's output: status takes its default.
SchemaOutput(values) ==
  [values EXCEPT !.status = IF @ = Undefined THEN "active" ELSE @]

\* A schema without the first refinement.
endDateNeverRequired(data) == TRUE

\* First refinement: completed or discontinued needs an endDate.
endDateRequired(data) ==
  ~(data.status \in {"completed", "discontinued"} /\ ~Truthy(data.endDate))

\* A schema without the second refinement.
nextDueDateUnchecked(data) == TRUE

\* Second refinement: an active medication's nextDueDate, when given, is on
\* or after the start date.
nextDueDateOnOrAfterStart(data) ==
  IF data.status = "active" /\ Truthy(data.nextDueDate)
  THEN LET startDate == parse(data.date)
           nextDate == parse(data.nextDueDate)
       IN isAfterDate(nextDate, startDate) \/ sameTime(startDate, nextDate)
  ELSE TRUE

\* Third refinement: an endDate, when given, is on or after the start date.
endDateOnOrAfterStart(data) ==
  IF Truthy(data.endDate)
  THEN LET startDate == parse(data.date)
           endDate == parse(data.endDate)
       IN isAfterDate(endDate, startDate) \/ sameTime(startDate, endDate)
  ELSE TRUE

\* The paths medicationSchema reports an issue on.
medicationSchemaErrors(data) ==
  {p \in {"name", "date", "nextDueDate", "endDate"} :
     \/ p = "name" /\ data.name = EmptyString
     \/ p = "date" /\ ~dateStringSchema(data.date)
     \/ p = "endDate" /\ ~endDateRequired(data)
     \/ p = "nextDueDate" /\ ~nextDueDateOnOrAfterStart(data)
     \/ p = "endDate" /\ ~endDateOnOrAfterStart(data)}

\* The add dialog's defaultValues: no status and no endDate.
AddDefaults ==
  [name |-> EmptyString, date |-> EmptyString, nextDueDate |-> EmptyString,
   endDate |-> Undefined, endReason |-> Undefined, status |-> Undefined]

\* Texts of the end reason field.
ReasonInputs == {EmptyString, "Recovered"}

\* The edit dialog's defaultValues, from the stored record.
EditDefaults ==
  [name : NameInputs, date : DateInputs, nextDueDate : DateInputs,
   endDate : DateInputs, endReason : ReasonInputs, status : Statuses]

NoWrite == [op |-> "none"]

\* The document handed to addDoc.
AddPayload(data, uid) ==
  [op |-> "addDoc", name |-> data.name, date |-> data.date,
   nextDueDate |-> data.nextDueDate, endDate |-> data.endDate,
   endReason |-> data.endReason, status |-> data.status, userId |-> uid]

\* An updateData that is the form data as submitted.
EditPayloadUnfiltered(data) ==
  [op |-> "updateDoc", name |-> data.name, date |-> data.date,
   nextDueDate |-> data.nextDueDate, endDate |-> data.endDate,
   endReason |-> data.endReason, status |-> data.status, userId |-> Undefined]

\* updateData, handed to updateDoc.
EditPayload(data) ==
  [op |-> "updateDoc", name |-> data.name, date |-> data.date,
   nextDueDate |-> IF data.status = "active" THEN data.nextDueDate ELSE Null,
   endDate |-> IF data.status \in {"completed", "discontinued"}
               THEN data.endDate ELSE Null,
   endReason |-> IF data.status \in {"completed", "discontinued"}
                 THEN data.endReason ELSE Null,
   status |-> data.status, userId |-> Undefined]

FormInit ==
  /\ fKind \in {"add", "edit"}
  /\ fUser \in {Viewer, Null}
  /\ fForm \in IF fKind = "add" THEN {AddDefaults} ELSE EditDefaults
  /\ fErrors = {}
  /\ fPc = "editing"
  /\ fLoading = FALSE
  /\ fOpen = TRUE
  /\ fWrite = NoWrite
  /\ fSubmits = 0
  /\ fWrites = 0
  /\ fToast = "none"

\* The user changes a field the dialog shows.
FEdit ==
  /\ fOpen /\ fPc = "editing"
  /\ \/ \E v \in NameInputs : v # fForm.name /\ fForm' = [fForm EXCEPT !.name = v]
     \/ \E v \in DateInputs : v # fForm.date /\ fForm' = [fForm EXCEPT !.date = v]
     \/ /\ fKind = "edit"
        /\ \E v \in Statuses : v # fForm.status /\ fForm' = [fForm EXCEPT !.status = v]
     \/ /\ fKind = "add" \/ fForm.status = "active"
        /\ \E v \in DateInputs :
             v # fForm.nextDueDate /\ fForm' = [fForm EXCEPT !.nextDueDate = v]
     \/ /\ fKind = "edit" /\ fForm.status \in {"completed", "discontinued"}
        /\ \/ \E v \in DateInputs :
                v # fForm.endDate /\ fForm' = [fForm EXCEPT !.endDate = v]
           \/ \E v \in ReasonInputs :
                v # fForm.endReason /\ fForm' = [fForm EXCEPT !.endReason = v]
  /\ UNCHANGED <<fKind, fUser, fErrors, fPc, fLoading, fOpen, fWrite, fSubmits,
                 fWrites, fToast>>
  /\ UNCHANGED formOthers

\* form.handleSubmit(onSubmit): the resolver validates; onSubmit runs only
\* when there is no issue.
FSubmit ==
  /\ fOpen /\ ~fLoading
  /\ fSubmits < MaxSubmits
  /\ fSubmits' = fSubmits + 1
  /\ LET data == SchemaOutput(fForm)
         errors == medicationSchemaErrors(data)
     IN /\ fErrors' = errors
        /\ IF errors # {}
           THEN UNCHANGED <<fPc, fLoading, fWrite, fWrites, fToast>>
           ELSE IF fUser = Null
           THEN /\ fToast' = IF fKind = "add"
                             THEN "You must be logged in to add medications."
                             ELSE "You must be logged in to update medications."
                /\ UNCHANGED <<fPc, fLoading, fWrite, fWrites>>
           ELSE /\ fLoading' = TRUE
                /\ fWrite' = IF fKind = "add" THEN AddPayload(data, fUser)
                             ELSE EditPayload(data)
                /\ fWrites' = fWrites + 1
                /\ fPc' = "writing"
                /\ UNCHANGED fToast
  /\ UNCHANGED <<fKind, fUser, fForm, fOpen>>
  /\ UNCHANGED formOthers

\* addDoc / updateDoc resolves.
FWriteDone ==
  /\ fPc = "writing"
  /\ fToast' = IF fKind = "add" THEN "Medication added successfully."
               ELSE "Medication updated successfully."
  /\ fOpen' = FALSE
  /\ fForm' = IF fKind = "add" THEN AddDefaults ELSE fForm
  /\ fLoading' = FALSE
  /\ fWrite' = NoWrite
  /\ fPc' = "editing"
  /\ UNCHANGED <<fKind, fUser, fErrors, fSubmits, fWrites>>
  /\ UNCHANGED formOthers

\* addDoc / updateDoc rejects.
FWriteFail ==
  /\ fPc = "writing"
  /\ fToast' = IF fKind = "add" THEN "Could not add medication. Please try again."
               ELSE "Could not update medication. Please try again."
  /\ fLoading' = FALSE
  /\ fWrite' = NoWrite
  /\ fPc' = "editing"
  /\ UNCHANGED <<fKind, fUser, fForm, fErrors, fOpen, fSubmits, fWrites>>
  /\ UNCHANGED formOthers

\* The dialog is opened again.
FOpen ==
  /\ ~fOpen
  /\ fOpen' = TRUE
  /\ UNCHANGED <<fKind, fUser, fForm, fErrors, fPc, fLoading, fWrite, fSubmits,
                 fWrites, fToast>>
  /\ UNCHANGED formOthers

FormNext ==
  \/ FEdit
  \/ FSubmit
  \/ FWriteDone
  \/ FWriteFail
  \/ FOpen

(***************************************************************************)
(* Properties of the medication dialogs                                    *)
(***************************************************************************)

\* The submitted endDate is present and on or after the start date.
EndDateOnOrAfterStart(values) ==
  /\ values.endDate \in DateStrings
  /\ values.date \in DateStrings
  /\ DayNumber[values.endDate] >= DayNumber[values.date]

\* C10: a submission with status completed or discontinued issues the write
\* only if endDate is present and on or after the start date; otherwise
\* validation reports an error on endDate and no write is issued.
C10_EndDateGuardsLeavingActive ==
  [][(fSubmits' = fSubmits + 1 /\ fForm.status \in {"completed", "discontinued"}) =>
       /\ fWrites' # fWrites => EndDateOnOrAfterStart(fForm)
       /\ ~EndDateOnOrAfterStart(fForm) =>
            "endDate" \in fErrors' /\ fWrites' = fWrites /\ fWrite' = fWrite]_vars

\* A completed or discontinued medication with a valid endDate has been
\* submitted and its write is in flight.
C10_Witness ==
  /\ fPc = "writing"
  /\ fWrite.status \in {"completed", "discontinued"}
  /\ fWrite.endDate \in DateStrings
  /\ "endDate" \notin fErrors

\* C17: every medication write of the add or edit dialog has a start date
\* that is a yyyy-MM-dd calendar date; a submission with an empty or
\* malformed start date is never written.
C17_WrittenStartDateIsValid ==
  fWrite # NoWrite => fWrite.date \in DateStrings

\* C18: no medication write of the add or edit dialog carries a nextDueDate
\* that is a date earlier than the start date, whatever the status.
C18_NextDueDateNotBeforeStart ==
  (fWrite # NoWrite /\ fWrite.nextDueDate \in DateStrings) =>
    /\ fWrite.date \in DateStrings
    /\ DayNumber[fWrite.nextDueDate] >= DayNumber[fWrite.date]

\* The edit form holds a nextDueDate earlier than the start date, entered
\* while the status was active, and is written with another status.
C18_Witness ==
  /\ fPc = "writing"
  /\ fKind = "edit"
  /\ fForm.status = "completed"
  /\ fForm.nextDueDate = "2024-01-01" /\ fForm.date = "2024-01-02"
  /\ fWrite.nextDueDate = Null

\* C23: a record written by the edit dialog has nextDueDate null unless its
\* status is active, and endDate and endReason null unless its status is
\* completed or discontinued; a record written by the add dialog has status
\* active.
C23_WrittenFieldsFollowStatus ==
  /\ fWrite.op = "updateDoc" =>
       /\ fWrite.status # "active" => fWrite.nextDueDate = Null
       /\ fWrite.status \notin {"completed", "discontinued"} =>
            fWrite.endDate = Null /\ fWrite.endReason = Null
  /\ fWrite.op = "addDoc" => fWrite.status = "active"

\* The edit form still holds an end date and an end reason while the status
\* is active again, and the write carries null for both.
C23_Witness ==
  /\ fPc = "writing"
  /\ fKind = "edit"
  /\ fForm.status = "active"
  /\ fForm.endDate \in DateStrings /\ fForm.endReason = "Recovered"
  /\ fWrite.endDate = Null /\ fWrite.endReason = Null

(***************************************************************************)
(* Appointment dialogs and their validation (AddAppointmentDialog,         *)
(* EditAppointmentDialog, appointmentFormSchema)                           *)
(***************************************************************************)

PredefinedTypes == {"checkup", "grooming", "emergency", "vaccination"}
\* The type select's options the model follows: one predefined and 'other'.
TypeInputs == {"checkup", "other"}
CustomTypeInputs == {EmptyString, "Dental"}
TimeInputs == {EmptyString, "09:30"}

\* /^\d{4}-\d{2}-\d{2}$/ on what a date input holds.
MatchesDateRegex(s) == s \in DateStrings
\* /^([0-1]?[0-9]|2[0-3]):[0-5][0-9]$/ on what a time input holds.
MatchesTimeRegex(s) == s \in TimeInputs \ {EmptyString}

\* A schema without the refinement.
customTypeNeverRequired(data) == TRUE

\* The refinement: type 'other' needs a customType.
customTypeRequired(data) == ~(data.type = "other" /\ ~Truthy(data.customType))

\* The paths appointmentFormSchema reports an issue on.  The field checks
\* leave the object parse dirty, not aborted, so the refinement runs too.
appointmentFormSchemaErrors(data) ==
  {p \in {"date", "time", "customType"} :
     \/ p = "date" /\ ~MatchesDateRegex(data.date)
     \/ p = "time" /\ ~MatchesTimeRegex(data.time)
     \/ p = "customType" /\ ~customTypeRequired(data)}

\* The add dialog's defaultValues.
AddAppointmentDefaults ==
  [type |-> "checkup", customType |-> EmptyString, date |-> EmptyString,
   time |-> EmptyString]

\* The edit dialog's defaultValues, from the stored appointment.
EditAppointmentDefaults(appointment) ==
  [type |-> IF appointment.type \in PredefinedTypes THEN appointment.type ELSE "other",
   customType |-> IF appointment.type \in PredefinedTypes THEN EmptyString
                  ELSE appointment.type,
   date |-> appointment.date,
   time |-> appointment.time]

\* The appointment an edit dialog is opened on; a record may lack its type.
StoredAppointments ==
  [type : {"checkup", "Dental", EmptyString, Undefined}, date : DateStrings,
   time : TimeInputs \ {EmptyString}]

\* The document handed to addDoc / updateDoc.
AppointmentPayload(op, data, uid) ==
  [op |-> op,
   type |-> IF data.type = "other" THEN data.customType ELSE data.type,
   customType |-> data.customType, date |-> data.date, time |-> data.time,
   userId |-> uid]

ApptInit ==
  /\ aKind \in {"add", "edit"}
  /\ aUser \in {Viewer, Null}
  /\ aForm \in IF aKind = "add" THEN {AddAppointmentDefaults}
               ELSE {EditAppointmentDefaults(r) : r \in StoredAppointments}
  /\ aErrors = {}
  /\ aPc = "editing"
  /\ aLoading = FALSE
  /\ aOpen = TRUE
  /\ aWrite = NoWrite
  /\ aSubmits = 0
  /\ aWrites = 0
  /\ aToast = "none"

\* The user changes a field the dialog shows; customType is shown while the
\* type is 'other'.
AEdit ==
  /\ aOpen /\ aPc = "editing"
  /\ \/ \E v \in TypeInputs : v # aForm.type /\ aForm' = [aForm EXCEPT !.type = v]
     \/ /\ aForm.type = "other"
        /\ \E v \in CustomTypeInputs :
             v # aForm.customType /\ aForm' = [aForm EXCEPT !.customType = v]
     \/ \E v \in DateInputs : v # aForm.date /\ aForm' = [aForm EXCEPT !.date = v]
     \/ \E v \in TimeInputs : v # aForm.time /\ aForm' = [aForm EXCEPT !.time = v]
  /\ UNCHANGED <<aKind, aUser, aErrors, aPc, aLoading, aOpen, aWrite, aSubmits,
                 aWrites, aToast>>
  /\ UNCHANGED apptOthers

\* form.handleSubmit(onSubmit): onSubmit runs only when the resolver reports
\* no issue.
ASubmit ==
  /\ aOpen /\ ~aLoading
  /\ aSubmits < MaxSubmits
  /\ aSubmits' = aSubmits + 1
  /\ LET errors == appointmentFormSchemaErrors(aForm)
     IN /\ aErrors' = errors
        /\ IF errors # {}
           THEN UNCHANGED <<aPc, aLoading, aWrite, aWrites, aToast>>
           ELSE IF aUser = Null
           THEN /\ aToast' = IF aKind = "add"
                             THEN "You must be logged in to schedule appointments."
                             ELSE "You must be logged in to update appointments."
                /\ UNCHANGED <<aPc, aLoading, aWrite, aWrites>>
           ELSE /\ aLoading' = TRUE
                /\ aWrite' = AppointmentPayload(
                               IF aKind = "add" THEN "addDoc" ELSE "updateDoc",
                               aForm, aUser)
                /\ aWrites' = aWrites + 1
                /\ aPc' = "writing"
                /\ UNCHANGED aToast
  /\ UNCHANGED <<aKind, aUser, aForm, aOpen>>
  /\ UNCHANGED apptOthers

\* addDoc / updateDoc resolves.
AWriteDone ==
  /\ aPc = "writing"
  /\ aToast' = IF aKind = "add" THEN "Appointment has been scheduled successfully."
               ELSE "Appointment has been updated successfully."
  /\ aOpen' = FALSE
  /\ aForm' = IF aKind = "add" THEN AddAppointmentDefaults ELSE aForm
  /\ aLoading' = FALSE
  /\ aWrite' = NoWrite
  /\ aPc' = "editing"
  /\ UNCHANGED <<aKind, aUser, aErrors, aSubmits, aWrites>>
  /\ UNCHANGED apptOthers

\* A handler that treats a rejected write as the success path treats a
\* resolved one: it closes the dialog and resets the add form.
AWriteFailClosing ==
  /\ aPc = "writing"
  /\ aToast' = IF aKind = "add"
               THEN "There was a problem scheduling the appointment. Please try again."
               ELSE "There was a problem updating the appointment. Please try again."
  /\ aOpen' = FALSE
  /\ aForm' = IF aKind = "add" THEN AddAppointmentDefaults ELSE aForm
  /\ aLoading' = FALSE
  /\ aWrite' = NoWrite
  /\ aPc' = "editing"
  /\ UNCHANGED <<aKind, aUser, aErrors, aSubmits, aWrites>>
  /\ UNCHANGED apptOthers

\* addDoc / updateDoc rejects.
AWriteFail ==
  /\ aPc = "writing"
  /\ aToast' = IF aKind = "add"
               THEN "There was a problem scheduling the appointment. Please try again."
               ELSE "There was a problem updating the appointment. Please try again."
  /\ aLoading' = FALSE
  /\ aWrite' = NoWrite
  /\ aPc' = "editing"
  /\ UNCHANGED <<aKind, aUser, aForm, aErrors, aOpen, aSubmits, aWrites>>
  /\ UNCHANGED apptOthers

\* The dialog is opened again.
AOpen ==
  /\ ~aOpen
  /\ aOpen' = TRUE
  /\ UNCHANGED <<aKind, aUser, aForm, aErrors, aPc, aLoading, aWrite, aSubmits,
                 aWrites, aToast>>
  /\ UNCHANGED apptOthers

\* The user dismisses the dialog (Escape, overlay or the close button):
\* handleOpenChange of the add dialog resets the form, the edit dialog's
\* parent only clears its open flag.
AClose ==
  /\ aOpen
  /\ aOpen' = FALSE
  /\ aForm' = IF aKind = "add" THEN AddAppointmentDefaults ELSE aForm
  /\ UNCHANGED <<aKind, aUser, aErrors, aPc, aLoading, aWrite, aSubmits, aWrites,
                 aToast>>
  /\ UNCHANGED apptOthers

ApptNext ==
  \/ AEdit
  \/ ASubmit
  \/ AWriteDone
  \/ AWriteFail
  \/ AOpen
  \/ AClose

(***************************************************************************)
(* Properties of the appointment dialogs                                   *)
(***************************************************************************)

\* C11: a submission of the add or edit appointment form with type other and
\* an empty or missing customType fails validation with an error on
\* customType, and issues no addDoc / updateDoc.
C11_OtherNeedsCustomType ==
  [][(aSubmits' = aSubmits + 1 /\ aForm.type = "other"
        /\ aForm.customType \in {EmptyString, Undefined}) =>
       "customType" \in aErrors' /\ aWrites' = aWrites /\ aWrite' = aWrite]_vars

\* Such a submission has been made and was rejected.
C11_Witness ==
  /\ aSubmits > 0
  /\ aForm.type = "other"
  /\ aForm.customType \in {EmptyString, Undefined}
  /\ "customType" \in aErrors
  /\ aWrites = 0

WriteErrorToasts ==
  {"There was a problem scheduling the appointment. Please try again.",
   "There was a problem updating the appointment. Please try again."}

\* C15: when the write of the add or edit appointment dialog is rejected, an
\* error notification is shown, the handler leaves the dialog open and the
\* entered values in place, the in-flight flag is false again and the open
\* dialog accepts another submit; the step that ends a write closes the
\* dialog or resets the form only when the write succeeded.
C15_WriteFailureKeepsDialog ==
  [][(aPc = "writing" /\ aPc' = "editing") =>
       \/ /\ aToast' \in WriteErrorToasts
          /\ aOpen' = aOpen /\ aForm' = aForm
          /\ aLoading /\ ~aLoading'
          /\ aWrites' = aWrites /\ aWrite' = NoWrite
       \/ /\ aToast' \notin WriteErrorToasts
          /\ aWrite # NoWrite /\ aWrite' = NoWrite
          /\ ~aOpen' /\ ~aLoading']_vars

\* A write was rejected while the dialog was open on entered values, the
\* dialog is still open on them and a second write has been issued from it.
C15_Witness ==
  /\ aToast \in WriteErrorToasts
  /\ aOpen /\ aLoading /\ aPc = "writing"
  /\ aWrites = 2
  /\ aForm.type = "other" /\ aForm.customType = "Dental"

(***************************************************************************)
(* Weight statistics (WeightTrackingClient.stats)                          *)
(***************************************************************************)

\* Most weight records in a snapshot.
MaxWeights == 3

WeightIds == {"w1", "w2", "w3"}
WeightValues == {9, 10, 20}
WeightDays == 1..3
WeightDocs == [id : WeightIds, weight : WeightValues, date : WeightDays]

\* What the weights query can deliver: orderBy('date', 'desc').
IsWeightSnapshot(s) ==
  /\ Len(s) <= MaxWeights
  /\ DistinctIds(s)
  /\ \A i \in 1..(Len(s) - 1) : s[i].date >= s[i + 1].date

\* new Date(date).getTime() of a date-only string.
getTime(date) == date * TicksPerDay

\* A comparator that puts the oldest record first.
oldestFirst(a, b) == getTime(a.date) - getTime(b.date)

\* The comparator of the sort: the newest record first.
newestFirst(a, b) == getTime(b.date) - getTime(a.date)

\* x put into the sorted s after every element that does not come after it.
RECURSIVE InsertSorted(_, _)
InsertSorted(s, x) ==
  IF s = <<>> THEN <<x>>
  ELSE IF newestFirst(Head(s), x) <= 0 THEN <<Head(s)>> \o InsertSorted(Tail(s), x)
  ELSE <<x>> \o s

\* [...weights].sort(comparator): a stable sort.
RECURSIVE sortedWeights(_)
sortedWeights(weights) ==
  IF weights = <<>> THEN <<>>
  ELSE InsertSorted(sortedWeights(SubSeq(weights, 1, Len(weights) - 1)),
                    weights[Len(weights)])

\* A quotient num / den of two numbers, kept exact.
Ratio(num, den) == [num |-> num, den |-> den]
Zero == Ratio(0, 1)

NoStats == [total |-> 0]

\* The stats memo.
stats(weights) ==
  IF Len(weights) = 0 THEN NoStats
  ELSE LET sorted == sortedWeights(weights)
           latestWeight == sorted[1]
           hasPrevious == Len(sorted) >= 2
           change == IF hasPrevious THEN latestWeight.weight - sorted[2].weight ELSE 0
           changePercent ==
             IF hasPrevious THEN Ratio(change * 100, sorted[2].weight) ELSE Zero
       IN [latest |-> latestWeight, change |-> change,
           changePercent |-> changePercent, total |-> Len(weights)]

WeightInit ==
  /\ wWeights = <<>>
  /\ wStats = stats(<<>>)

\* The snapshot that follows the current one when a record is added to the
\* store (at place k + 1) or the record at place k is deleted from it.
WithRecord(s, k, d) == SubSeq(s, 1, k) \o <<d>> \o SubSeq(s, k + 1, Len(s))
WithoutRecord(s, k) == SubSeq(s, 1, k - 1) \o SubSeq(s, k + 1, Len(s))

\* The weights listener fires after a record was added: the list is
\* replaced and the view renders.
WSnapshotAdded ==
  /\ \E d \in WeightDocs, k \in 0..Len(wWeights) :
       LET snapshot == WithRecord(wWeights, k, d)
       IN /\ IsWeightSnapshot(snapshot)
          /\ wWeights' = snapshot
          /\ wStats' = stats(snapshot)
  /\ UNCHANGED weightOthers

\* The weights listener fires after a record was deleted.
WSnapshotDeleted ==
  /\ \E k \in 1..Len(wWeights) :
       LET snapshot == WithoutRecord(wWeights, k)
       IN /\ wWeights' = snapshot
          /\ wStats' = stats(snapshot)
  /\ UNCHANGED weightOthers

WeightNext == WSnapshotAdded \/ WSnapshotDeleted

(***************************************************************************)
(* Properties of the weight statistics                                     *)
(***************************************************************************)

\* The ratio r equals the number n.
RatioIs(r, n) == r.num = n * r.den

\* Record i has the greatest date and record j the greatest among the rest.
LatestAndPrevious(i, j) ==
  /\ i # j
  /\ \A k \in 1..Len(wWeights) : wWeights[k].date <= wWeights[i].date
  /\ \A k \in 1..Len(wWeights) \ {i} : wWeights[k].date <= wWeights[j].date

\* C12: without records there are no stats; with one record change and
\* changePercent are 0; with two or more, latest is the record with the
\* greatest date, change is latest.weight - previous.weight and changePercent
\* is change / previous.weight * 100, previous having the second greatest
\* date.
C12_WeightStats ==
  /\ Len(wWeights) = 0 => wStats = NoStats
  /\ Len(wWeights) = 1 =>
       /\ wStats.latest = wWeights[1]
       /\ wStats.change = 0
       /\ RatioIs(wStats.changePercent, 0)
  /\ Len(wWeights) >= 2 =>
       \E i, j \in 1..Len(wWeights) :
         /\ LatestAndPrevious(i, j)
         /\ wStats.latest = wWeights[i]
         /\ wStats.change = wWeights[i].weight - wWeights[j].weight
         /\ wStats.changePercent.den # 0
         /\ wStats.changePercent.num * wWeights[j].weight
              = wStats.change * 100 * wStats.changePercent.den

\* 10 on one day, then 9 on a later day: latest 9, change -1, changePercent
\* -10.
C12_Witness ==
  /\ Len(wWeights) = 2
  /\ wWeights[1].weight = 9 /\ wWeights[2].weight = 10
  /\ wWeights[1].date > wWeights[2].date
  /\ wStats.latest.weight = 9
  /\ wStats.change = -1
  /\ RatioIs(wStats.changePercent, -10)

(***************************************************************************)
(* Edit dialogs and the components that mount them (EditPetDialog,         *)
(* EditAppointmentDialog, EditMedicationDialog, EditFeedingScheduleDialog, *)
(* EditNoteDialog)                                                         *)
(***************************************************************************)

\* Snapshots the parent of a dialog receives, and writes a dialog issues.
MaxEditSnaps == 2
MaxEditWrites == 2

EditDialogs == {"pet", "appointment", "medication", "feeding", "note"}

\* The field values of the record, by revision, and what a user typed.
Revisions == <<"rev1", "rev2">>
Typed == "typed"
NextRevisions(v) ==
  {v} \cup {Revisions[i + 1] : i \in {k \in 1..(Len(Revisions) - 1) : Revisions[k] = v}}

\* The dialog is rendered with its parent; the note and feeding-schedule
\* dialogs only once a record was picked for editing.
MountedWithParent(kind) == kind \in {"pet", "appointment", "medication"}
\* The parent stops rendering the dialog when it closes.
UnmountsOnClose(kind) == kind = "feeding"
\* The record prop is the record of the parent's current list; the note
\* dialog's is the note picked by handleEditClick.
PropFollowsSnapshot(kind) == kind # "note"
\* The dialog has an effect that resets the form when its record prop
\* changes.
ResetsOnPropChange(kind) == kind \in {"medication", "note"}

\* The dialog's onSubmit fetches the record and compares its owner with
\* the user before it writes.
ChecksOwnerBeforeUpdate(kind) == kind \in {"pet", "note"}

\* The update carries userId: user.uid.
UpdateWritesUserId(kind) == kind \in {"pet", "appointment", "feeding"}

EditInit ==
  /\ eKind \in EditDialogs
  /\ eOwner \in Users
  /\ eStored = [values |-> Revisions[1], snap |-> 0]
  /\ eProp = eStored
  /\ eMounted = MountedWithParent(eKind)
  /\ eOpen = FALSE
  /\ eForm = IF MountedWithParent(eKind) THEN eStored.values ELSE "unmounted"
  /\ eClosedBy = "none"
  /\ ePc = "idle"
  /\ eLoading = FALSE
  /\ eImageUrl \in IF eKind = "pet" THEN {"img", Null} ELSE {Null}
  /\ ePreview = eImageUrl
  /\ eWrites = <<>>
  /\ eSavePressed = FALSE
  /\ eToast = "none"

\* The parent receives a snapshot (the pet page: fetches the pet again):
\* every record in it is a new object.
ESnapshot ==
  /\ eStored.snap < MaxEditSnaps
  /\ \E v \in NextRevisions(eStored.values) :
       LET stored == [values |-> v, snap |-> eStored.snap + 1]
           prop == IF eMounted /\ PropFollowsSnapshot(eKind) THEN stored ELSE eProp
       IN /\ eStored' = stored
          /\ eProp' = prop
          /\ eForm' = IF eMounted /\ prop # eProp /\ ResetsOnPropChange(eKind)
                      THEN prop.values ELSE eForm
  /\ UNCHANGED <<eKind, eOwner, eMounted, eOpen, eClosedBy, ePc, eLoading, eImageUrl,
                 ePreview, eWrites, eSavePressed, eToast>>
  /\ UNCHANGED editOthers

\* The user opens the dialog on the record.
EOpenDialog ==
  /\ ~eOpen
  /\ eOpen' = TRUE
  /\ eMounted' = TRUE
  /\ LET prop == IF eMounted /\ PropFollowsSnapshot(eKind) THEN eProp ELSE eStored
     IN /\ eProp' = prop
        /\ eForm' = IF ~eMounted THEN prop.values
                    ELSE IF prop # eProp /\ ResetsOnPropChange(eKind) THEN prop.values
                    ELSE eForm
  /\ UNCHANGED <<eKind, eOwner, eStored, eClosedBy, ePc, eLoading, eImageUrl, ePreview,
                 eWrites, eSavePressed, eToast>>
  /\ UNCHANGED editOthers

\* The user changes the inputs.
EType ==
  /\ eOpen /\ eForm # Typed
  /\ eForm' = Typed
  /\ UNCHANGED <<eKind, eOwner, eStored, eProp, eMounted, eOpen, eClosedBy, ePc, eLoading,
                 eImageUrl, ePreview, eWrites, eSavePressed, eToast>>
  /\ UNCHANGED editOthers

\* The user closes the dialog.
ECloseDialog ==
  /\ eOpen
  /\ eOpen' = FALSE
  /\ eClosedBy' = "user"
  /\ eMounted' = IF UnmountsOnClose(eKind) THEN FALSE ELSE eMounted
  /\ UNCHANGED <<eKind, eOwner, eStored, eProp, eForm, ePc, eLoading, eImageUrl, ePreview,
                 eWrites, eSavePressed, eToast>>
  /\ UNCHANGED editOthers

\* The pet dialog's image control: the user picks a file.
EPickImage ==
  /\ eKind = "pet" /\ eOpen /\ ~eLoading
  /\ ePreview # "picked"
  /\ ePreview' = "picked"
  /\ UNCHANGED <<eKind, eOwner, eStored, eProp, eMounted, eOpen, eForm, eClosedBy, ePc,
                 eLoading, eImageUrl, eWrites, eSavePressed, eToast>>
  /\ UNCHANGED editOthers

\* The pet dialog's image control: removeImage up to its first await.
ERemoveImage ==
  /\ eKind = "pet" /\ eOpen /\ ~eLoading
  /\ ePreview # Null
  /\ Len(eWrites) < MaxEditWrites
  /\ eLoading' = TRUE
  /\ eWrites' = eWrites \o (IF eImageUrl # Null THEN <<"deletePetImage">> ELSE <<>>)
                        \o <<"updateDoc">>
  /\ ePc' = "removeImage"
  /\ UNCHANGED <<eKind, eOwner, eStored, eProp, eMounted, eOpen, eForm, eClosedBy,
                 eImageUrl, ePreview, eSavePressed, eToast>>
  /\ UNCHANGED editOthers

\* removeImage's calls resolve.
ERemoveImageDone ==
  /\ ePc = "removeImage"
  /\ ePreview' = Null
  /\ eToast' = "Pet image removed successfully."
  /\ eLoading' = FALSE
  /\ ePc' = "idle"
  /\ UNCHANGED <<eKind, eOwner, eStored, eProp, eMounted, eOpen, eForm, eClosedBy,
                 eImageUrl, eWrites, eSavePressed>>
  /\ UNCHANGED editOthers

\* One of removeImage's calls rejects.
ERemoveImageFail ==
  /\ ePc = "removeImage"
  /\ eToast' = "There was a problem removing the image."
  /\ eLoading' = FALSE
  /\ ePc' = "idle"
  /\ UNCHANGED <<eKind, eOwner, eStored, eProp, eMounted, eOpen, eForm, eClosedBy,
                 eImageUrl, ePreview, eWrites, eSavePressed>>
  /\ UNCHANGED editOthers

\* Save is pressed, validation passes and onSubmit runs up to its write: the
\* pet and note dialogs throw before it when the fetched record is not the
\* user's.
ESave ==
  /\ eOpen /\ ~eLoading
  /\ Len(eWrites) < MaxEditWrites
  /\ eSavePressed' = TRUE
  /\ eLoading' = TRUE
  /\ IF ChecksOwnerBeforeUpdate(eKind) /\ ~HasAccess(eOwner, Viewer)
     THEN eWrites' = eWrites /\ ePc' = "unauthorized"
     ELSE eWrites' = Append(eWrites, "updateDoc") /\ ePc' = "save"
  /\ UNCHANGED <<eKind, eOwner, eStored, eProp, eMounted, eOpen, eForm, eClosedBy,
                 eImageUrl, ePreview, eToast>>
  /\ UNCHANGED editOthers

\* The write resolves: the dialog closes itself.
ESaveDone ==
  /\ ePc = "save"
  /\ eToast' = "updated successfully"
  /\ eOwner' = IF UpdateWritesUserId(eKind) THEN Viewer ELSE eOwner
  /\ eClosedBy' = IF eOpen THEN "save" ELSE eClosedBy
  /\ eOpen' = FALSE
  /\ eMounted' = IF UnmountsOnClose(eKind) THEN FALSE ELSE eMounted
  /\ eLoading' = FALSE
  /\ ePc' = "idle"
  /\ UNCHANGED <<eKind, eStored, eProp, eForm, eImageUrl, ePreview, eWrites,
                 eSavePressed>>
  /\ UNCHANGED editOthers

\* The write rejects, or the ownership check has thrown.
ESaveFail ==
  /\ ePc \in {"save", "unauthorized"}
  /\ eToast' = "There was a problem updating"
  /\ eLoading' = FALSE
  /\ ePc' = "idle"
  /\ UNCHANGED <<eKind, eOwner, eStored, eProp, eMounted, eOpen, eForm, eClosedBy,
                 eImageUrl, ePreview, eWrites, eSavePressed>>
  /\ UNCHANGED editOthers

EditNext ==
  \/ ESnapshot
  \/ EOpenDialog
  \/ EType
  \/ ECloseDialog
  \/ EPickImage
  \/ ERemoveImage
  \/ ERemoveImageDone
  \/ ERemoveImageFail
  \/ ESave
  \/ ESaveDone
  \/ ESaveFail

(***************************************************************************)
(* Properties of the edit dialogs                                          *)
(***************************************************************************)

\* C13: when an edit dialog that was closed without submitting is opened
\* again, its form shows the values of the record in the latest snapshot,
\* not what was typed before closing and not an older snapshot's values.
C13_ReopenShowsLatestSnapshot ==
  [][(~eOpen /\ eOpen' /\ eClosedBy = "user") => eForm' = eStored'.values]_vars

\* C29: an update issued through an edit dialog never changes the owner of
\* the record: the stored userId after the write is the stored userId before
\* it, also when the record handed to the dialog is not the current user's.
C29_UpdateKeepsOwner ==
  [][eOwner' = eOwner]_vars

\* C14: as long as Save was never pressed (and no delete confirmed), opening
\* an edit dialog, changing its inputs, the pet dialog's image control
\* included, and closing it issue no write to the database or to storage.
C14_NoWriteWithoutSave ==
  ~eSavePressed => eWrites = <<>>

(***************************************************************************)
(* Write handlers of the dialogs and their in-flight flag (isLoading)      *)
(***************************************************************************)

\* Handler runs the model follows in one dialog.
MaxStarts == 3
\* Handler runs of one view that await their calls at the same time.
MaxInFlight == 2

\* The dialogs, and the two views that delete records themselves.
Dialogs ==
  {"AddPetDialog", "EditPetDialog", "AddAppointmentDialog",
   "EditAppointmentDialog", "EditNoteDialog", "MedicationsClient", "NotesClient"}

\* The component keeps an isLoading flag for its handlers; the views'
\* delete handlers have none.
HasFlag(dialog) == dialog \notin {"MedicationsClient", "NotesClient"}

\* The async handlers of a dialog that call the database or blob storage.
WriteHandlers(dialog) ==
  CASE dialog = "EditPetDialog" -> {"onSubmit", "removeImage", "handleDelete"}
    [] dialog = "EditAppointmentDialog" -> {"onSubmit", "onDelete"}
    [] dialog = "MedicationsClient" -> {"handleDelete"}
    [] dialog = "NotesClient" -> {"handleDeleteNote"}
    [] OTHER -> {"onSubmit"}

IsDelete(handler) == handler \in {"handleDelete", "onDelete"}

\* The ways a handler run can end once it is past its user guard.
Outcomes(dialog, handler) ==
  {"success", "write failure"}
    \cup (IF handler = "onSubmit" /\ dialog \in {"AddPetDialog", "EditPetDialog"}
          THEN {"image upload failure"} ELSE {})
    \cup (IF (IsDelete(handler) /\ dialog # "MedicationsClient")
             \/ handler = "handleDeleteNote"
             \/ (handler = "onSubmit" /\ dialog \in {"EditPetDialog", "EditNoteDialog"})
          THEN {"ownership failure"} ELSE {})

\* The toast of a handler that finds no signed-in user; handleDeleteNote
\* returns without one.
SignedOutToast(dialog, handler) ==
  IF handler = "handleDeleteNote" THEN <<>>
  ELSE <<dialog, handler, "You must be logged in">>

\* A handler without the guard.
UserGuardMissing(user) == FALSE

\* if (!user) at the top of every handler.
UserGuard(user) == user = Null

\* A control that never takes the disabled attribute.
ControlNeverDisabled(loading) == FALSE

\* disabled={isLoading} on the submit button, the image remove button and the
\* trigger of the delete confirmation.
ControlDisabled(loading) == loading

HandlerInit ==
  /\ hKind \in Dialogs
  /\ hUser \in {Viewer, Null}
  /\ hLoading = FALSE
  /\ hAlertOpen = FALSE
  /\ hInFlight = <<>>
  /\ hStarts = 0
  /\ hLast = <<>>
  /\ hToast = <<>>

\* The body of a handler up to its first await: the user guard, then
\* setIsLoading(true) and the first external call.
HandlerBody(handler) ==
  /\ hStarts' = hStarts + 1
  /\ IF UserGuard(hUser)
     THEN /\ hToast' = SignedOutToast(hKind, handler)
          /\ UNCHANGED <<hLoading, hInFlight>>
     ELSE /\ hLoading' = HasFlag(hKind)
          /\ hInFlight' = Append(hInFlight, handler)
          /\ UNCHANGED hToast
  /\ UNCHANGED <<hKind, hUser, hLast>>

\* The submit button, the image remove button or a note's delete button is
\* pressed; the modal delete confirmation is not in front of the dialog.
HPress(handler) ==
  /\ handler \in WriteHandlers(hKind) /\ ~IsDelete(handler)
  /\ hStarts < MaxStarts
  /\ Len(hInFlight) < MaxInFlight
  /\ ~hAlertOpen
  /\ ~ControlDisabled(hLoading)
  /\ HandlerBody(handler)
  /\ UNCHANGED hAlertOpen
  /\ UNCHANGED handlerOthers

\* The Delete button opens the confirmation.
HOpenAlert ==
  /\ \E handler \in WriteHandlers(hKind) : IsDelete(handler)
  /\ ~hAlertOpen
  /\ ~ControlDisabled(hLoading)
  /\ hAlertOpen' = TRUE
  /\ UNCHANGED <<hKind, hUser, hLoading, hInFlight, hStarts, hLast, hToast>>
  /\ UNCHANGED handlerOthers

\* The confirmation is cancelled.
HCancelAlert ==
  /\ hAlertOpen
  /\ hAlertOpen' = FALSE
  /\ UNCHANGED <<hKind, hUser, hLoading, hInFlight, hStarts, hLast, hToast>>
  /\ UNCHANGED handlerOthers

\* The confirmation's action button is pressed: the confirmation closes and
\* the delete handler runs.
HConfirm(handler) ==
  /\ handler \in WriteHandlers(hKind) /\ IsDelete(handler)
  /\ hStarts < MaxStarts
  /\ Len(hInFlight) < MaxInFlight
  /\ hAlertOpen
  /\ hAlertOpen' = FALSE
  /\ HandlerBody(handler)
  /\ UNCHANGED handlerOthers

\* A handler run ends: the toast of its outcome, then finally
\* setIsLoading(false).
HSettle(i, outcome) ==
  /\ i \in 1..Len(hInFlight)
  /\ outcome \in Outcomes(hKind, hInFlight[i])
  /\ hLast' = <<hInFlight[i], outcome>>
  /\ hToast' = <<hKind, hInFlight[i], outcome>>
  /\ hInFlight' = [j \in 1..(Len(hInFlight) - 1) |->
                     IF j < i THEN hInFlight[j] ELSE hInFlight[j + 1]]
  /\ hLoading' = FALSE
  /\ UNCHANGED <<hKind, hUser, hAlertOpen, hStarts>>
  /\ UNCHANGED handlerOthers

AllOutcomes == {"success", "write failure", "image upload failure", "ownership failure"}

HandlerNext ==
  \/ \E handler \in {"onSubmit", "removeImage", "handleDeleteNote"} : HPress(handler)
  \/ HOpenAlert
  \/ HCancelAlert
  \/ \E handler \in {"handleDelete", "onDelete"} : HConfirm(handler)
  \/ \E i \in 1..MaxStarts, outcome \in AllOutcomes : HSettle(i, outcome)

(***************************************************************************)
(* Properties of the write handlers                                        *)
(***************************************************************************)

C28_SignedOutHandlersDoNothing ==
  [][hUser = Null =>
       /\ hInFlight' = <<>> /\ hInFlight' = hInFlight
       /\ hLoading' = hLoading]_vars

\* The image remove button was pressed without a signed-in user.
C28_Witness ==
  /\ hUser = Null
  /\ hStarts > 0
  /\ hToast = SignedOutToast("EditPetDialog", "removeImage")
  /\ hInFlight = <<>> /\ ~hLoading

MaxPoints == 9

ChartWeights == {10, 20}

\* The comparator of the chart's sort: ascending date.
byDate(a, b) == getTime(a.date) - getTime(b.date)

RECURSIVE InsertByDate(_, _)
InsertByDate(s, x) ==
  IF s = <<>> THEN <<x>>
  ELSE IF byDate(Head(s), x) <= 0 THEN <<Head(s)>> \o InsertByDate(Tail(s), x)
  ELSE <<x>> \o s

\* [...data].sort(byDate)
RECURSIVE sortedData(_)
sortedData(data) ==
  IF data = <<>> THEN <<>>
  ELSE InsertByDate(sortedData(SubSeq(data, 1, Len(data) - 1)), data[Len(data)])

windowSize == 7

Max(a, b) == IF a >= b THEN a ELSE b

\* A window that starts one sample too early.
windowStartEarly(index) == Max(0, index - windowSize)

\* start of movingAverage, for the 0-based index.
windowStart(index) == Max(0, index - windowSize + 1)

\* window.reduce((sum, record) => sum + record.weight, 0)
RECURSIVE reduceWeights(_)
reduceWeights(window) ==
  IF window = <<>> THEN 0 ELSE window[1].weight + reduceWeights(Tail(window))

\* movingAverage(index, arr), index 0-based; arr.slice(start, index + 1).
movingAverage(index, arr) ==
  LET start == windowStart(index)
      window == SubSeq(arr, start + 1, index + 1)
  IN Ratio(reduceWeights(window), Len(window))

\* The chartData of the memo.
chartDataOf(data) ==
  LET sorted == sortedData(data)
  IN [i \in 1..Len(sorted) |->
        [date |-> sorted[i].date, weight |-> sorted[i].weight,
         ma7 |-> movingAverage(i - 1, sorted)]]

ChartInit ==
  /\ cNewestFirst \in BOOLEAN
  /\ cData = <<>>
  /\ cChart = <<>>

\* The view hands the chart a list with one more record, dated after the
\* others; the list is ordered newest first or oldest first.
CNewData ==
  /\ Len(cData) < MaxPoints
  /\ \E w \in ChartWeights :
       LET record == [date |-> Len(cData) + 1, weight |-> w]
           data == IF cNewestFirst THEN <<record>> \o cData ELSE Append(cData, record)
       IN /\ cData' = data
          /\ cChart' = chartDataOf(data)
  /\ UNCHANGED cNewestFirst
  /\ UNCHANGED chartOthers

\* The view hands the chart the list without its newest record.
CRemoveData ==
  /\ cData # <<>>
  /\ LET data == IF cNewestFirst THEN Tail(cData)
                 ELSE SubSeq(cData, 1, Len(cData) - 1)
     IN /\ cData' = data
        /\ cChart' = chartDataOf(data)
  /\ UNCHANGED cNewestFirst
  /\ UNCHANGED chartOthers

ChartNext == CNewData \/ CRemoveData

(***************************************************************************)
(* Properties of the weight chart                                          *)
(***************************************************************************)

\* The weight of the record of cData dated d.
WeightOn(d) == cData[CHOOSE i \in 1..Len(cData) : cData[i].date = d].weight

RECURSIVE SumOfDays(_, _)
SumOfDays(first, last) ==
  IF first > last THEN 0 ELSE WeightOn(last) + SumOfDays(first, last - 1)

\* C25: with the records in ascending date order, the moving average of the
\* point at 0-based position i is the mean of the weights at positions
\* max(0, i-6) through i: the sum of min(i+1, 7) samples over their number.
C25_MovingAverage ==
  /\ Len(cChart) = Len(cData)
  /\ \A p \in 1..Len(cChart) :
       LET i == p - 1
           first == IF i - 6 > 0 THEN i - 6 ELSE 0
           samples == IF i + 1 < 7 THEN i + 1 ELSE 7
       IN /\ cChart[p].date = p
          /\ cChart[p].weight = WeightOn(p)
          /\ cChart[p].ma7.den = samples
          /\ cChart[p].ma7.num = SumOfDays(first + 1, i + 1)

\* A chart of more than seven points whose weights differ.
C25_Witness ==
  /\ Len(cChart) > 7
  /\ cNewestFirst
  /\ cChart[1].weight = 20 /\ cChart[2].weight = 10
  /\ cChart[8].ma7 = Ratio(70, 7)

(***************************************************************************)
(* Specifications                                                          *)
(***************************************************************************)

\* A component at rest in the specification of another component: its
\* initial state with the inputs Init draws fixed.
ViewRest == ViewInit /\ vKind = "overview" /\ vUser = Viewer /\ vPet = "p1"
DelRest == DelInit /\ dKind = "pet" /\ dUser = Viewer /\ dOwner = Viewer /\ dImage = "none"
DashRest == DashInit /\ dashUser = Viewer /\ dashNow = FirstNow
AuthRest == AuthInit /\ authCurrent = Null /\ cookie = NoCookie
BadgeRest ==
  /\ BadgeInit /\ bNow = FirstNow
  /\ bMed = [status |-> "active", nextDueDate |-> NoDate]
FormRest == FormInit /\ fKind = "add" /\ fUser = Viewer
ApptRest == ApptInit /\ aKind = "add" /\ aUser = Viewer
WeightRest == WeightInit
EditRest == EditInit /\ eKind = "note" /\ eOwner = Viewer /\ eImageUrl = Null
HandlerRest == HandlerInit /\ hKind = "EditNoteDialog" /\ hUser = Null
ChartRest == ChartInit /\ cNewestFirst = FALSE

\* The whole application: every component from its initial state.
Init == MwInit /\ ViewInit /\ DelInit /\ DashInit /\ AuthInit /\ BadgeInit /\ FormInit /\ ApptInit /\ WeightInit /\ EditInit /\ HandlerInit /\ ChartInit
Next == MwNext \/ ViewNext \/ DelNext \/ DashNext \/ AuthNext \/ BadgeNext \/ FormNext \/ ApptNext \/ WeightNext \/ EditNext \/ HandlerNext \/ ChartNext
Spec == Init /\ [][Next]_vars

\* One component at a time.
MiddlewareInit == MwInit /\ ViewRest /\ DelRest /\ DashRest /\ AuthRest /\ BadgeRest /\ FormRest /\ ApptRest /\ WeightRest /\ EditRest /\ HandlerRest /\ ChartRest
MiddlewareSpec == MiddlewareInit /\ [][MwNext]_vars

ViewSpecInit == MwInit /\ ViewInit /\ DelRest /\ DashRest /\ AuthRest /\ BadgeRest /\ FormRest /\ ApptRest /\ WeightRest /\ EditRest /\ HandlerRest /\ ChartRest
ViewSpec == ViewSpecInit /\ [][ViewNext]_vars

DeleteInit == MwInit /\ ViewRest /\ DelInit /\ DashRest /\ AuthRest /\ BadgeRest /\ FormRest /\ ApptRest /\ WeightRest /\ EditRest /\ HandlerRest /\ ChartRest
DeleteSpec == DeleteInit /\ [][DelNext]_vars

DashSpecInit == MwInit /\ ViewRest /\ DelRest /\ DashInit /\ AuthRest /\ BadgeRest /\ FormRest /\ ApptRest /\ WeightRest /\ EditRest /\ HandlerRest /\ ChartRest
DashSpec == DashSpecInit /\ [][DashNext]_vars

AuthSpecInit == MwInit /\ ViewRest /\ DelRest /\ DashRest /\ AuthInit /\ BadgeRest /\ FormRest /\ ApptRest /\ WeightRest /\ EditRest /\ HandlerRest /\ ChartRest
AuthSpec == AuthSpecInit /\ [][AuthNext]_vars

FormSpecInit == MwInit /\ ViewRest /\ DelRest /\ DashRest /\ AuthRest /\ BadgeRest /\ FormInit /\ ApptRest /\ WeightRest /\ EditRest /\ HandlerRest /\ ChartRest
FormSpec == FormSpecInit /\ [][FormNext]_vars

BadgeSpecInit == MwInit /\ ViewRest /\ DelRest /\ DashRest /\ AuthRest /\ BadgeInit /\ FormRest /\ ApptRest /\ WeightRest /\ EditRest /\ HandlerRest /\ ChartRest
BadgeSpec == BadgeSpecInit /\ [][BadgeNext]_vars

ApptSpecInit ==
  MwInit /\ ViewRest /\ DelRest /\ DashRest /\ AuthRest /\ BadgeRest /\ FormRest /\ ApptInit /\ WeightRest /\ EditRest /\ HandlerRest /\ ChartRest
ApptSpec == ApptSpecInit /\ [][ApptNext]_vars

WeightSpecInit ==
  MwInit /\ ViewRest /\ DelRest /\ DashRest /\ AuthRest /\ BadgeRest /\ FormRest /\ ApptRest /\ WeightInit /\ EditRest /\ HandlerRest /\ ChartRest
WeightSpec == WeightSpecInit /\ [][WeightNext]_vars

EditSpecInit ==
  MwInit /\ ViewRest /\ DelRest /\ DashRest /\ AuthRest /\ BadgeRest /\ FormRest /\ ApptRest /\ WeightRest /\ EditInit /\ HandlerRest /\ ChartRest
EditSpec == EditSpecInit /\ [][EditNext]_vars

HandlerSpecInit ==
  MwInit /\ ViewRest /\ DelRest /\ DashRest /\ AuthRest /\ BadgeRest /\ FormRest /\ ApptRest /\ WeightRest /\ EditRest /\ HandlerInit /\ ChartRest
HandlerSpec == HandlerSpecInit /\ [][HandlerNext]_vars

ChartSpecInit ==
  MwInit /\ ViewRest /\ DelRest /\ DashRest /\ AuthRest /\ BadgeRest /\ FormRest /\ ApptRest /\ WeightRest /\ EditRest /\ HandlerRest /\ ChartInit
ChartSpec == ChartSpecInit /\ [][ChartNext]_vars

====
